---------------------------- MODULE Spec2Model ----------------------------
(***************************************************************************)
(* A model of the segment loader of http-streaming (segment-loader.js) and *)
(* of the chunked transport it drives (audio-segment-fetch.js).            *)
(*                                                                         *)
(* One SegmentLoader object is modelled with all the fields its handlers   *)
(* read and write.  The objects it shares with the rest of the player (the *)
(* timeline change controller, the source updater, the network) are part   *)
(* of the state; the other loader of the session acts on them through the  *)
(* Other* actions.  Every handler of the loader is an operator from a      *)
(* record of the state to the record after the call, so that a handler     *)
(* that calls another one is the composition the source writes.  The       *)
(* values a handler reads from outside the loader (buffered ranges,        *)
(* current time, what a callback carries) are inputs of the action.        *)
(***************************************************************************)
EXTENDS Integers, Sequences, FiniteSets, TLC

\* an entry of the step's log: what happened, for which request id and
\* timeline, and two details whose kind depends on what happened
Ev(op, id, tl, x, y) == [op |-> op, id |-> id, tl |-> tl, x |-> x, y |-> y]

\* ------------------------------------------------------------- bounds
\* requests one loader issues in a run (request ids are 1..MaxRequests)
MaxRequests == 2
\* media chunks one chunked fetch delivers before its stream ends
MaxChunks == 1
\* highest media-sequence number of a playlist refresh
MaxSequence == 1
\* segments in a playlist window
NumSegments == 2
\* consecutive segments that share a timeline
SegmentsPerTimeline == 2
\* calls the player makes on the loader in a run, after the first playlist
\* and the load that starts the loader
MaxCalls == 1
\* the last timeline the other loader of the session walks into
MaxOtherTimeline == 0

\* top-level boxes in the media stream of a chunked fetch
MaxBoxes == 3
\* bytes of payload in a media-data box
PayloadSize == 1
\* the latest current time of the back-buffer arithmetic, in seconds
MaxTime == 40

\* ------------------------------------------------------------- values
RequestIds == 1..MaxRequests
LoaderTypes == {"main", "audio"}
States == {"INIT", "READY", "WAITING", "APPENDING", "DISPOSED"}
MediaTypes == {"audio", "video"}
Uris == {1, 2}

Max(a, b) == IF a >= b THEN a ELSE b
Min(a, b) == IF a <= b THEN a ELSE b

\* an optional value: <<>> is null/undefined, <<v>> is v
None == <<>>
Some(v) == <<v>>
IsSome(o) == o # <<>>
Val(o) == o[1]

\* a JavaScript value that is null, undefined, a number or NaN
Null == [k |-> "null", v |-> 0]
Undefined == [k |-> "undefined", v |-> 0]
NaN == [k |-> "NaN", v |-> 0]
Num(n) == [k |-> "number", v |-> n]
\* typeof x === 'number'
IsNumber(x) == x.k \in {"number", "NaN"}
\* a === b
StrictEq(a, b) == a.k # "NaN" /\ a = b
\* a - n
\* Infinity, as a blacklist duration
Infinity == [k |-> "Infinity", v |-> 0]
Minus(a, n) == IF a.k = "number" THEN Num(a.v - n) ELSE IF a.k = "null" THEN Num(0 - n) ELSE NaN

\* timeline of the segment with absolute number n (media sequence + index)
TimelineOf(n) == n \div SegmentsPerTimeline
MaxTimeline == TimelineOf(MaxSequence + NumSegments - 1)
Timelines == 0..MaxTimeline

\* what a track-info callback can carry
TrackInfo(a, v, m) == [hasAudio |-> a, hasVideo |-> v, isMuxed |-> m]
TrackInfos ==
  { TrackInfo(TRUE, FALSE, FALSE), TrackInfo(FALSE, TRUE, FALSE), TrackInfo(TRUE, TRUE, TRUE) }
\* the audio loader fetches the segments of an audio playlist
TrackInfosOf(type) == IF type = "audio" THEN {TrackInfo(TRUE, FALSE, FALSE)} ELSE TrackInfos

\* time values of the lifecycle model: buffered end / start of segment, and
\* the media start time a timing-info callback reports
OffsetBases == {0, 1}
TimingStarts == {1}

\* a playlist object: identity (uri), media sequence and number of segments;
\* uri 0 is "no playlist"
Playlist(u, q, n) == [uri |-> u, mediaSequence |-> q, length |-> n]
NoPlaylist == Playlist(0, 0, 0)
\* playlist.segments[i]: a segment is known by its number in the stream
SegmentAt(pl, i) == pl.mediaSequence + i
Playlists == { Playlist(u, q, NumSegments) : u \in Uris, q \in 0..MaxSequence }

\* simpleSegment.isFmp4 as the buffered transport finds it
IsFmp4(pl) == pl.uri = 2

\* the pending segment (segmentInfo); requestId 0 is "no pending segment"
NoSegment ==
  [ requestId |-> 0, mediaIndex |-> 0, isSyncRequest |-> FALSE, timeline |-> 0,
    playlist |-> NoPlaylist, startOfSegment |-> Undefined, timestampOffset |-> Null, trackInfo |-> FALSE,
    audioTimingInfo |-> None, videoTimingInfo |-> None, timingInfo |-> FALSE,
    timingInfoStart |-> None, changedTimestampOffset |-> FALSE,
    hasAppendedData_ |-> FALSE, waitingOnAppends |-> 0, abortRequests |-> FALSE,
    segmentInfoInitDataApplied |-> FALSE, audioInitDataAppended |-> FALSE,
    videoInitDataAppended |-> FALSE, isFmp4 |-> FALSE, segment |-> 0,
    byteLength |-> 0, bytesReceived |-> 0 ]


\* ------------------------------------------------------------- state
VARIABLES
  loaderType,                 \* settings.loaderType
  useFetch,                   \* options.experimentalLowLatencyDash && window.fetch
  state,                      \* this.state_
  checkBufferTimeout_,        \* TRUE: a buffer-check timer is armed
  playlist_,                  \* this.playlist_
  mediaIndex,                 \* this.mediaIndex (None is null)
  pendingSegment_,            \* this.pendingSegment_
  currentTimeline_,           \* this.currentTimeline_
  currentMediaInfo_,          \* this.currentMediaInfo_ (None is undefined)
  syncPoint_,                 \* TRUE: this.syncPoint_ is not null
  fetchAtBuffer_,             \* this.fetchAtBuffer_
  isPendingTimestampOffset_,  \* this.isPendingTimestampOffset_
  audioDisabled_,             \* this.audioDisabled_
  callQueue_,                 \* this.callQueue_: queued request-finished calls
  loadQueue_,                 \* this.loadQueue_: request ids of queued loads
  nextId,                     \* the next request id generateSegmentInfo_ draws
  net,                        \* network: request id -> transport state
  segmentTrackAndTimingInfoHandled,  \* module flag of the chunked transport
  queueCallbacks,             \* sink: <<request id, type>> markers queued
  ready,                      \* sourceUpdater_.ready()
  timestampOffsets,           \* sink: [video, audio] timestamp offsets
  timelineChangeController_,  \* [pending, last]: type -> None | <<[from, to]>>
  appendInitSegment_,         \* this.appendInitSegment_: [audio, video]
  playlistOfLastInitSegment_, \* this.playlistOfLastInitSegment_: [audio, video]
  activeInitSegmentId_,       \* this.activeInitSegmentId_ (None is null)
  initSent,                   \* history: [audio, video], the playlist whose init
                              \* bytes went to the sink last, NoPlaylist when the
                              \* track set has changed since
  refused,                    \* history: ids of the requests whose track info
                              \* was an illegal media switch
  fetch,                      \* the chunked fetch under study: its closure
  log,                        \* what the last step did, in order
  calls                       \* calls the player has made

vars ==
  << loaderType, useFetch, state, checkBufferTimeout_, playlist_, mediaIndex,
     pendingSegment_, currentTimeline_, currentMediaInfo_, syncPoint_,
     fetchAtBuffer_, isPendingTimestampOffset_, audioDisabled_, callQueue_,
     loadQueue_, nextId, net, segmentTrackAndTimingInfoHandled,
     queueCallbacks, ready, timestampOffsets, timelineChangeController_,
     appendInitSegment_, playlistOfLastInitSegment_, activeInitSegmentId_,
     initSent, refused, fetch, log, calls >>

\* the state as one record: the `this` of the handlers, plus what they reach
\* through it; threw is TRUE once a handler of the step has thrown
Self ==
  [ loaderType |-> loaderType, useFetch |-> useFetch, state |-> state,
    checkBufferTimeout_ |-> checkBufferTimeout_, playlist_ |-> playlist_,
    mediaIndex |-> mediaIndex, pendingSegment_ |-> pendingSegment_,
    currentTimeline_ |-> currentTimeline_,
    currentMediaInfo_ |-> currentMediaInfo_, syncPoint_ |-> syncPoint_,
    fetchAtBuffer_ |-> fetchAtBuffer_,
    isPendingTimestampOffset_ |-> isPendingTimestampOffset_,
    audioDisabled_ |-> audioDisabled_, callQueue_ |-> callQueue_,
    loadQueue_ |-> loadQueue_, nextId |-> nextId,
    net |-> net,
    segmentTrackAndTimingInfoHandled |-> segmentTrackAndTimingInfoHandled,
    queueCallbacks |-> queueCallbacks, ready |-> ready,
    timestampOffsets |-> timestampOffsets,
    timelineChangeController_ |-> timelineChangeController_,
    appendInitSegment_ |-> appendInitSegment_,
    playlistOfLastInitSegment_ |-> playlistOfLastInitSegment_,
    activeInitSegmentId_ |-> activeInitSegmentId_, initSent |-> initSent,
    refused |-> refused,
    fetch |-> fetch, log |-> <<>>, threw |-> FALSE ]

\* the step ends in record n
Commit(n) ==
  /\ loaderType' = n.loaderType
  /\ useFetch' = n.useFetch
  /\ state' = n.state
  /\ checkBufferTimeout_' = n.checkBufferTimeout_
  /\ playlist_' = n.playlist_
  /\ mediaIndex' = n.mediaIndex
  /\ pendingSegment_' = n.pendingSegment_
  /\ currentTimeline_' = n.currentTimeline_
  /\ currentMediaInfo_' = n.currentMediaInfo_
  /\ syncPoint_' = n.syncPoint_
  /\ fetchAtBuffer_' = n.fetchAtBuffer_
  /\ isPendingTimestampOffset_' = n.isPendingTimestampOffset_
  /\ audioDisabled_' = n.audioDisabled_
  /\ callQueue_' = n.callQueue_
  /\ loadQueue_' = n.loadQueue_
  /\ nextId' = n.nextId
  /\ net' = n.net
  /\ segmentTrackAndTimingInfoHandled' = n.segmentTrackAndTimingInfoHandled
  /\ queueCallbacks' = n.queueCallbacks
  /\ ready' = n.ready
  /\ timestampOffsets' = n.timestampOffsets
  /\ timelineChangeController_' = n.timelineChangeController_
  /\ appendInitSegment_' = n.appendInitSegment_
  /\ playlistOfLastInitSegment_' = n.playlistOfLastInitSegment_
  /\ activeInitSegmentId_' = n.activeInitSegmentId_
  /\ initSent' = n.initSent
  /\ refused' = n.refused
  /\ fetch' = n.fetch
  /\ log' = n.log

\* a call of the player: MaxCalls calls in a run, and one more on a loader
\* that is disposed of; any other step
Budget == calls < MaxCalls \/ (state = "DISPOSED" /\ calls < MaxCalls + 1)
Call(n) == calls' = calls + 1 /\ Commit(n)
Step(n) == calls' = calls /\ Commit(n)

Logged(s, e) == [s EXCEPT !.log = Append(@, e)]
\* what the loader and the coordinator held when an effect left the loader
Ctx(s) ==
  [ currentTimeline |-> s.currentTimeline_,
    lastMain |-> s.timelineChangeController_.last["main"],
    pendingAudio |-> s.timelineChangeController_.pending["audio"],
    audioDisabled |-> s.audioDisabled_,
    mediaInfo |-> IsSome(s.currentMediaInfo_),
    ready |-> s.ready,
    trackInfo |-> s.pendingSegment_.trackInfo ]
Throw(s) == [s EXCEPT !.threw = TRUE]
HasPending(s) == s.pendingSegment_.requestId # 0

\* the `state` setter: a change of state fires statechange
SetState(s, newState) ==
  IF newState # s.state
    THEN Logged([s EXCEPT !.state = newState],
                Ev("statechange", 0, 0, s.state, newState))
    ELSE s

\* ------------------------------------------------------------- pure functions
illegalMediaSwitch(type, startingMedia, trackInfo) ==
  IF type # "main" \/ ~IsSome(startingMedia) THEN FALSE
  ELSE IF ~trackInfo.hasAudio /\ ~trackInfo.hasVideo THEN TRUE
  ELSE IF Val(startingMedia).hasVideo /\ ~trackInfo.hasVideo THEN TRUE
  ELSE IF ~Val(startingMedia).hasVideo /\ trackInfo.hasVideo THEN TRUE
  ELSE FALSE

\* buffered: None for an empty TimeRanges, else the end of its last range
timestampOffsetForSegment(segmentTimeline, currentTimeline, startOfSegment, buffered, overrideCheck) ==
  IF ~overrideCheck /\ segmentTimeline = currentTimeline THEN Null
  ELSE IF IsSome(buffered) THEN Num(Val(buffered)) ELSE startOfSegment

\* a wait that asks for the loader's own last change, whatever its type
shouldWaitForTimelineChange_Own(tcc, currentTimeline, segmentTimeline, type, audioDisabled) ==
  IF currentTimeline = segmentTimeline THEN FALSE
  ELSE \/ ~IsSome(tcc.last[type])
       \/ Val(tcc.last[type]).to # segmentTimeline

shouldWaitForTimelineChange(tcc, currentTimeline, segmentTimeline, type, audioDisabled) ==
  IF currentTimeline = segmentTimeline THEN FALSE
  ELSE IF type = "audio"
    THEN \/ ~IsSome(tcc.last["main"])
         \/ Val(tcc.last["main"]).to # segmentTimeline
  ELSE IF type = "main" /\ audioDisabled
    THEN ~( /\ IsSome(tcc.pending["audio"])
            /\ Val(tcc.pending["audio"]).to = segmentTimeline )
  ELSE FALSE

\* Config.BACK_BUFFER_LENGTH: "30 seconds before the playhead"
BACK_BUFFER_LENGTH == 30

\* a trim time that does not look at the seekable window
safeBackBufferTrimTime_NoWindow(seekable, currentTime, targetDuration, backBufferLength) ==
  Min(currentTime - targetDuration, currentTime - backBufferLength)

\* seekable: None for an empty TimeRanges, else the start of its first range;
\* backBufferLength is Config.BACK_BUFFER_LENGTH
safeBackBufferTrimTime(seekable, currentTime, targetDuration, backBufferLength) ==
  LET trimTime == IF IsSome(seekable)
                    THEN Max(currentTime - backBufferLength, Val(seekable))
                    ELSE currentTime - backBufferLength
      maxTrimTime == currentTime - targetDuration
  IN Min(maxTrimTime, trimTime)

\* the end of the range trimBackBuffer_ removes from the sink, None when it
\* removes nothing; targetDuration 0 stands for a playlist without one
trimBackBuffer_(seekable, currentTime, targetDuration, backBufferLength) ==
  LET removeToTime == safeBackBufferTrimTime(seekable, currentTime,
                        IF targetDuration = 0 THEN 10 ELSE targetDuration, backBufferLength)
  IN IF removeToTime > 0 THEN Some(removeToTime) ELSE None

\* ------------------------------------------------------------- coordinator
NoChanges == [t \in LoaderTypes |-> None]
Change(from, to) == [from |-> from, to |-> to]

clearPendingTimelineChange(tcc, type) ==
  [tcc EXCEPT !.pending[type] = None]
pendingTimelineChange(tcc, type, from, to) ==
  [tcc EXCEPT !.pending[type] = Some(Change(from, to))]
lastTimelineChange(tcc, type, from, to) ==
  [tcc EXCEPT !.last[type] = Some(Change(from, to)), !.pending[type] = None]


\* ------------------------------------------------------------- settings
\* settings.handlePartialData: off in the low-latency configuration
handlePartialData_ == FALSE

\* ------------------------------------------------------------- network
\* The buffered transport (media-segment-request) calls back in the order
\* track info, timing info, data, done; the chunked transport calls
\* track info, timing info and chunk together for every chunk, and data and
\* done together when the stream ends.
NetIdle == [phase |-> "none", chunks |-> 0, trackInfo |-> TrackInfo(FALSE, FALSE, FALSE)]
\* a request that calls back no more
NetClosed == [NetIdle EXCEPT !.phase = "closed"]
InFlight(n) == n.phase \in {"open", "tracked", "timed", "data"}

\* a typed array: a view of an array buffer from byte `from` to its end
Bytes(buf) == [buf |-> buf, from |-> 0]
View(a) == SubSeq(a.buf, a.from + 1, Len(a.buf))

\* The closure of one call of the chunked transport (audioSegmentFetch), and
\* what the network holds for it:
\*   id        the request the fetch was started for
\*   stream    the top-level boxes of the media segment, by type
\*   pos       bytes of the stream the reader has delivered
\*   reading   the read loop is alive
\*   initReq   the request of the init segment is in flight
\*   tracks    segment.map.tracks is set
\*   trace     the callbacks the fetch has invoked, in order
NoFetch ==
  [ id |-> 0, stream |-> <<>>, pos |-> 0, reading |-> FALSE, initReq |-> FALSE, tracks |-> FALSE,
    needInit |-> FALSE, initRcvd |-> FALSE, firstChunkReceiveTime |-> 0,
    firstChunkFlag |-> FALSE, segmentDone |-> FALSE,
    remaining |-> Bytes(<<>>), offset |-> 0, trace |-> <<>> ]

\* abortRequests() of the buffered transport: the request is cancelled
abortRequests(s, id) ==
  IF InFlight(s.net[id])
    THEN Logged([s EXCEPT !.net[id] = [NetIdle EXCEPT !.phase = "cancelled"]],
                Ev("cancel", id, 0, 0, 0))
    ELSE s

\* ------------------------------------------------------------- timer
\* a loader that never reports itself paused
paused_Never(s) == s.checkBufferTimeout_ /\ ~s.checkBufferTimeout_
paused(s) == ~s.checkBufferTimeout_
pause(s) ==
  Logged([s EXCEPT !.checkBufferTimeout_ = FALSE], Ev("pause", 0, 0, paused(s), 0))
monitorBuffer_(s) == [s EXCEPT !.checkBufferTimeout_ = TRUE]
couldBeginLoading_(s) == s.playlist_ # NoPlaylist /\ ~paused(s)

\* ------------------------------------------------------------- queues
hasEnoughInfoToLoad_(s) ==
  IF s.loaderType # "audio" THEN TRUE
  ELSE IF ~HasPending(s) THEN FALSE
  ELSE IF ~IsSome(s.currentMediaInfo_) THEN TRUE
  ELSE ~shouldWaitForTimelineChange(s.timelineChangeController_, s.currentTimeline_, s.pendingSegment_.timeline, s.loaderType, s.audioDisabled_)

\* destructuring this.currentMediaInfo_ throws when it is undefined
hasEnoughInfoToAppend_Throws(s) ==
  /\ s.ready
  /\ HasPending(s)
  /\ s.pendingSegment_.trackInfo
  /\ ~handlePartialData_
  /\ ~IsSome(s.currentMediaInfo_)

hasEnoughInfoToAppend_(s) ==
  /\ s.ready
  /\ HasPending(s)
  /\ s.pendingSegment_.trackInfo
  /\ ~shouldWaitForTimelineChange(s.timelineChangeController_, s.currentTimeline_, s.pendingSegment_.timeline, s.loaderType, s.audioDisabled_)

\* Only segmentRequestFinished_ pushes to the call queue, and only when the
\* queue is not empty: in a run of the loader the queue never holds a call
\* (TypeOK), and so it is with the queue of a call that its drain runs, which
\* was cleared before the call. This is processCallQueue_ as the handlers of
\* the loader meet it: the queue is cleared and there is no call to run.
processCallQueue_Empty(s) == [s EXCEPT !.callQueue_ = <<>>]

\* if (this.hasEnoughInfoToAppend_()) { this.processCallQueue_(); }
checkCallQueue(s) ==
  IF hasEnoughInfoToAppend_Throws(s) THEN Throw(s)
  ELSE IF hasEnoughInfoToAppend_(s) THEN processCallQueue_Empty(s)
  ELSE s

\* ------------------------------------------------------------- abort
abort_(s) ==
  LET a == IF HasPending(s) /\ s.pendingSegment_.abortRequests
             THEN abortRequests(s, s.pendingSegment_.requestId)
             ELSE s
  IN [a EXCEPT !.pendingSegment_ = NoSegment,
               !.callQueue_ = <<>>,
               !.loadQueue_ = <<>>,
               !.timelineChangeController_ = clearPendingTimelineChange(@, s.loaderType)]

abort(s) ==
  IF s.state # "WAITING"
    THEN Logged([s EXCEPT !.pendingSegment_ = NoSegment],
                Ev("abort", s.pendingSegment_.requestId, 0, s.state, 0))
    ELSE LET l == Logged(s, Ev("abort", s.pendingSegment_.requestId, 0, s.state, 0))
             a == SetState(abort_(l), "READY")
         IN IF ~paused(a) THEN monitorBuffer_(a) ELSE a

\* a check that does not compare the request ids
checkForAbort_AnyId(s, requestId) ==
  \/ s.state = "APPENDING" /\ ~HasPending(s)
  \/ ~HasPending(s)

\* TRUE when the callback of request requestId is to be dropped
checkForAbort_(s, requestId) ==
  \/ s.state = "APPENDING" /\ ~HasPending(s)
  \/ ~HasPending(s)
  \/ s.pendingSegment_.requestId # requestId

\* the state checkForAbort_ leaves when the callback of request requestId is
\* dropped
checkForAbort_State(s, requestId) ==
  LET d == Logged(s, Ev("discard", requestId, 0, 0, 0))
  IN IF s.state = "APPENDING" /\ ~HasPending(s) THEN SetState(d, "READY") ELSE d

\* this.trigger(event)
trigger(s, event) ==
  Logged(s, Ev("trigger", s.pendingSegment_.requestId, 0, event, 0))

\* error(err): the loader only writes this.error_, so the write is an effect
\* of the step; the pending segment is gone
error(s, message, blacklistDuration) ==
  [Logged(s, Ev("error_", s.pendingSegment_.requestId, 0,
                [message |-> message, blacklistDuration |-> blacklistDuration], 0))
     EXCEPT !.pendingSegment_ = NoSegment]

\* ------------------------------------------------------------- reset
resyncLoader(s) ==
  abort([s EXCEPT !.mediaIndex = None,
                  !.syncPoint_ = FALSE,
                  !.isPendingTimestampOffset_ = FALSE,
                  !.callQueue_ = <<>>,
                  !.loadQueue_ = <<>>])

resetLoader(s) == resyncLoader([s EXCEPT !.fetchAtBuffer_ = FALSE])

\* removeFinished, the completion the sink is given for every removal and that
\* remove calls itself at its end: done is called when the count reaches 0
removeFinished(removes) ==
  [removes EXCEPT !.removesRemaining = @ - 1,
                  !.done = IF removes.removesRemaining = 1 THEN @ + 1 ELSE @]

\* remove(start, end, done) gives up without calling done
remove_Silent(s) == [issued |-> {}, removesRemaining |-> 0, done |-> 0]

\* remove(start, end, done) changes the sink, not the loader; what the call
\* leaves is the removals it issued to the sink (the loader has a sink from
\* its construction), the count of its closure and the calls of done so far
remove(s) ==
  LET issued ==
        (IF ~s.audioDisabled_ THEN {"audio"} ELSE {})
          \cup (IF s.loaderType = "main" /\ Val(s.currentMediaInfo_).hasVideo
                  THEN {"video"} ELSE {})
  IN IF ~IsSome(s.currentMediaInfo_)
       THEN [issued |-> {}, removesRemaining |-> 0, done |-> 0]
       ELSE removeFinished([issued |-> issued,
                            removesRemaining |-> 1 + Cardinality(issued),
                            done |-> 0])

\* remove(0, Infinity): the sink's content is not part of the state
resetEverything(s) ==
  resetLoader([s EXCEPT !.appendInitSegment_ = [audio |-> TRUE, video |-> TRUE]])

init_(s) == monitorBuffer_(resetEverything(SetState(s, "READY")))

\* load that makes the loader ready whatever its state
load_FromAnyState(s) ==
  LET m == monitorBuffer_(s)
  IN IF m.playlist_ = NoPlaylist THEN m
     ELSE IF m.state = "INIT" /\ couldBeginLoading_(m) THEN init_(m)
     ELSE SetState(m, "READY")

load(s) ==
  LET m == monitorBuffer_(s)
  IN IF m.playlist_ = NoPlaylist THEN m
     ELSE IF m.state = "INIT" /\ couldBeginLoading_(m) THEN init_(m)
     ELSE IF ~couldBeginLoading_(m) \/ m.state \notin {"READY", "INIT"} THEN m
     ELSE SetState(m, "READY")

\* a rebase that moves the index with the window
rebase_Forward(index, mediaSequenceDiff) == index + mediaSequenceDiff

\* the index of a segment after a refresh that moves the window by diff
rebase(index, mediaSequenceDiff) == index - mediaSequenceDiff

playlist(s, newPlaylist) ==
  LET oldPlaylist == s.playlist_
      p == trigger(Logged([s EXCEPT !.playlist_ = newPlaylist],
                          Ev("playlist", s.pendingSegment_.requestId, 0,
                             [old |-> oldPlaylist, new |-> newPlaylist],
                             [mediaIndex |-> s.mediaIndex, pendingIndex |-> s.pendingSegment_.mediaIndex])),
                   "syncinfoupdate")
      mediaSequenceDiff == newPlaylist.mediaSequence - oldPlaylist.mediaSequence
  IN IF p.state = "INIT" /\ couldBeginLoading_(p) THEN init_(p)
     ELSE IF oldPlaylist = NoPlaylist \/ oldPlaylist.uri # newPlaylist.uri
       THEN LET r == IF IsSome(p.mediaIndex) \/ handlePartialData_
                       THEN resyncLoader(p) ELSE p
            IN trigger([r EXCEPT !.currentMediaInfo_ = None], "playlistupdate")
     ELSE [p EXCEPT
             !.mediaIndex =
               IF IsSome(@) THEN Some(rebase(Val(@), mediaSequenceDiff)) ELSE @,
             !.pendingSegment_.mediaIndex =
               IF HasPending(p) THEN rebase(@, mediaSequenceDiff) ELSE @,
             !.pendingSegment_.segment =
               IF HasPending(p) /\ rebase(p.pendingSegment_.mediaIndex, mediaSequenceDiff) >= 0
                 THEN SegmentAt(newPlaylist, rebase(p.pendingSegment_.mediaIndex, mediaSequenceDiff))
                 ELSE @]

dispose(s) ==
  pause(abort_(pause(SetState(s, "DISPOSED"))))

setAudio(s, enable) ==
  [s EXCEPT !.audioDisabled_ = ~enable,
            !.appendInitSegment_.audio = IF enable THEN TRUE ELSE @]


\* ------------------------------------------------------------- checkBuffer_
\* What fillBuffer_ reads from outside the loader:
\*   updating     sourceUpdater_.updating()
\*   syncPoint    TRUE: syncController_.getSyncPoint returns a sync point
\*   buffered     buffered_(): None when empty, else the end of the last range
\*   currentTime  currentTime_()
\*   hasPlayed    hasPlayed_()
\*   goal         goalBufferLength_()
\*   mediaInfo    Playlist.getMediaInfoForTime(...): [mediaIndex, startTime]
\*   segmentEnd   playlist.segments[mediaIndex].end: None when not yet known
\*   ended        mediaSource_.readyState === 'ended'
\*   seeking      seeking_()

\* indexes of the segments of playlist pl that lie in timeline tl, ascending
RECURSIVE IndexesInTimeline(_, _, _)
IndexesInTimeline(pl, tl, i) ==
  IF i >= pl.length THEN <<>>
  ELSE (IF TimelineOf(SegmentAt(pl, i)) = tl THEN <<i>> ELSE <<>>)
       \o IndexesInTimeline(pl, tl, i + 1)

\* a candidate that is the last segment of the playlist, whatever the timeline
getSyncSegmentCandidate_Last(s, pl) == Max(pl.length - 1, 0)

getSyncSegmentCandidate_(s, pl) ==
  IF s.currentTimeline_ = -1 THEN 0
  ELSE LET segmentIndexArray == IndexesInTimeline(pl, s.currentTimeline_, 0)
       IN IF Len(segmentIndexArray) > 0
            THEN segmentIndexArray[Min(Len(segmentIndexArray) - 1, 1) + 1]
            ELSE Max(pl.length - 1, 0)

\* a segment info without the check of the end of the playlist
generateSegmentInfo_Unbounded(s, pl, index, startOfSegment, isSyncRequest) ==
  IF index < 0 THEN NoSegment
  ELSE [NoSegment EXCEPT
          !.requestId = s.nextId,
          !.mediaIndex = index,
          !.isSyncRequest = isSyncRequest,
          !.startOfSegment = startOfSegment,
          !.playlist = pl,
          !.segment = SegmentAt(pl, index),
          !.timeline = TimelineOf(SegmentAt(pl, index))]

generateSegmentInfo_(s, pl, index, startOfSegment, isSyncRequest) ==
  IF index < 0 \/ index >= pl.length THEN NoSegment
  ELSE [NoSegment EXCEPT
          !.requestId = s.nextId,
          !.mediaIndex = index,
          !.isSyncRequest = isSyncRequest,
          !.startOfSegment = startOfSegment,
          !.playlist = pl,
          !.segment = SegmentAt(pl, index),
          !.timeline = TimelineOf(SegmentAt(pl, index))]

lastBufferedEndOf(buffered) == IF IsSome(buffered) THEN Val(buffered) ELSE 0
bufferedTimeOf(in) == Max(0, lastBufferedEndOf(in.buffered) - in.currentTime)

\* the early returns of checkBuffer_
checkBuffer_Idle(pl, in) ==
  \/ pl.length = 0
  \/ ~in.hasPlayed /\ bufferedTimeOf(in) >= 1

\* a check that requests the last segment again after the end of the stream
checkBuffer_NoStop(s, pl, currentMediaIndex, in) ==
  LET lastBufferedEnd == lastBufferedEndOf(in.buffered)
      isSyncRequest == ~s.syncPoint_
      nextMediaIndex ==
        IF ~s.syncPoint_ THEN getSyncSegmentCandidate_(s, pl)
        ELSE IF IsSome(currentMediaIndex) THEN Val(currentMediaIndex) + 1
        ELSE in.mediaInfo.mediaIndex
      startOfSegment ==
        IF ~s.syncPoint_ THEN Undefined
        ELSE IF IsSome(currentMediaIndex)
          THEN (IF /\ Val(currentMediaIndex) >= 0
                   /\ Val(currentMediaIndex) < pl.length
                   /\ IsSome(in.segmentEnd)
                  THEN Num(Val(in.segmentEnd)) ELSE Num(lastBufferedEnd))
        ELSE Num(in.mediaInfo.startTime)
      segmentInfo == generateSegmentInfo_(s, pl, nextMediaIndex, startOfSegment, isSyncRequest)
  IN IF checkBuffer_Idle(pl, in) THEN NoSegment
     ELSE IF segmentInfo = NoSegment THEN NoSegment
     ELSE segmentInfo

checkBuffer_(s, pl, currentMediaIndex, in) ==
  LET lastBufferedEnd == lastBufferedEndOf(in.buffered)
      isSyncRequest == ~s.syncPoint_
      nextMediaIndex ==
        IF ~s.syncPoint_ THEN getSyncSegmentCandidate_(s, pl)
        ELSE IF IsSome(currentMediaIndex) THEN Val(currentMediaIndex) + 1
        ELSE in.mediaInfo.mediaIndex
      startOfSegment ==
        IF ~s.syncPoint_ THEN Undefined
        ELSE IF IsSome(currentMediaIndex)
          THEN (IF /\ Val(currentMediaIndex) >= 0
                   /\ Val(currentMediaIndex) < pl.length
                   /\ IsSome(in.segmentEnd)
                  THEN Num(Val(in.segmentEnd)) ELSE Num(lastBufferedEnd))
        ELSE Num(in.mediaInfo.startTime)
      segmentInfo == generateSegmentInfo_(s, pl, nextMediaIndex, startOfSegment, isSyncRequest)
  IN IF checkBuffer_Idle(pl, in) THEN NoSegment
     ELSE IF segmentInfo = NoSegment THEN NoSegment
     ELSE IF /\ s.playlist_ # NoPlaylist
             /\ segmentInfo.mediaIndex = s.playlist_.length - 1
             /\ in.ended
             /\ ~in.seeking
       THEN NoSegment
     ELSE segmentInfo


\* ------------------------------------------------------------- loading
\* the listener of the coordinator's pendingtimelinechange event (main
\* loader only); an exception of a listener ends the listener alone
onPendingTimelineChange(s) ==
  IF s.loaderType # "main" \/ hasEnoughInfoToAppend_Throws(s) THEN s
  ELSE IF hasEnoughInfoToAppend_(s) THEN processCallQueue_Empty(s)
  ELSE s

shouldUpdateTransmuxerTimestampOffset_(s, timestampOffset) ==
  IF timestampOffset = Null THEN FALSE
  ELSE IF s.loaderType = "main" /\ ~StrictEq(timestampOffset, s.timestampOffsets.video) THEN TRUE
  ELSE IF ~s.audioDisabled_ /\ ~StrictEq(timestampOffset, s.timestampOffsets.audio) THEN TRUE
  ELSE FALSE

\* the transport is started for the pending segment; the chunked transport
\* returns no abort function and resets its module flag
updateTransmuxerAndRequestSegment_(s) ==
  LET seg == s.pendingSegment_
      a == IF shouldUpdateTransmuxerTimestampOffset_(s, seg.timestampOffset)
             THEN Logged(s, Ev("setTransmuxerOffset", seg.requestId, seg.timeline, seg.timestampOffset, Ctx(s)))
             ELSE s
      b == Logged(a, Ev("request", seg.requestId, seg.timeline, 0, Ctx(a)))
  IN [b EXCEPT !.net[seg.requestId].phase = "open",
               !.pendingSegment_.abortRequests = ~s.useFetch,
               !.segmentTrackAndTimingInfoHandled = IF s.useFetch THEN FALSE ELSE @]

\* a queued load: the timestamp offset is generated again from the buffer
queuedLoad(s, buffered) ==
  LET seg == s.pendingSegment_
      a == IF IsNumber(seg.timestampOffset)
             THEN [s EXCEPT !.pendingSegment_.timestampOffset =
                    timestampOffsetForSegment(seg.timeline, s.currentTimeline_, seg.startOfSegment, buffered, TRUE)]
             ELSE s
  IN updateTransmuxerAndRequestSegment_(a)

\* A queued load is the load of the pending segment: whatever clears or
\* replaces the pending segment of a queued load empties the queue too.
RECURSIVE runLoadQueue(_, _, _)
runLoadQueue(s, queue, buffered) ==
  IF queue = <<>> THEN s
  ELSE runLoadQueue(
         IF Head(queue) = s.pendingSegment_.requestId THEN queuedLoad(s, buffered) ELSE s,
         Tail(queue), buffered)

\* a queue that is emptied without running its loads
processLoadQueue_Drop(s, buffered) == [s EXCEPT !.loadQueue_ = <<>>]

processLoadQueue_(s, buffered) ==
  runLoadQueue([s EXCEPT !.loadQueue_ = <<>>], s.loadQueue_, buffered)

\* the listener of the coordinator's timelinechange event (audio loader only)
onTimelineChange(s, buffered) ==
  IF s.loaderType # "audio" THEN s
  ELSE LET a == IF hasEnoughInfoToLoad_(s) THEN processLoadQueue_(s, buffered) ELSE s
       IN IF hasEnoughInfoToAppend_Throws(a) THEN a
          ELSE IF hasEnoughInfoToAppend_(a) THEN processCallQueue_Empty(a)
          ELSE a

loadSegment_(s, segmentInfo) ==
  LET l == Logged(s, Ev("loadSegment", segmentInfo.requestId, segmentInfo.timeline, s.pendingSegment_.requestId, 0))
      w == [SetState(l, "WAITING") EXCEPT !.pendingSegment_ = segmentInfo]
  IN IF ~hasEnoughInfoToLoad_(w)
       THEN [w EXCEPT !.loadQueue_ = Append(@, segmentInfo.requestId)]
       ELSE updateTransmuxerAndRequestSegment_(w)

fillBuffer_(s, in) ==
  IF in.updating THEN s
  ELSE
    LET a == IF ~s.syncPoint_ THEN [s EXCEPT !.syncPoint_ = in.syncPoint] ELSE s
        found == checkBuffer_(a, a.playlist_, a.mediaIndex, in)
        c == Logged(a, Ev("checkBuffer_", found.requestId, found.mediaIndex, bufferedTimeOf(in) >= in.goal, in.hasPlayed))
        timestampOffset == timestampOffsetForSegment(found.timeline, a.currentTimeline_, found.startOfSegment, in.buffered, a.isPendingTimestampOffset_)
        segmentInfo == [found EXCEPT !.timestampOffset = timestampOffset]
        d == [c EXCEPT !.isPendingTimestampOffset_ = FALSE, !.nextId = @ + 1]
        e == IF IsNumber(timestampOffset)
               THEN onPendingTimelineChange(
                      [d EXCEPT !.timelineChangeController_ =
                         pendingTimelineChange(@, d.loaderType, d.currentTimeline_, found.timeline)])
               ELSE d
    IN IF found = NoSegment THEN c ELSE loadSegment_(e, segmentInfo)

monitorBufferTick_(s, in) ==
  monitorBuffer_(IF s.state = "READY" THEN fillBuffer_(s, in) ELSE s)


\* ------------------------------------------------------------- callbacks
handleProgress_(s, requestId) ==
  IF checkForAbort_(s, requestId) THEN checkForAbort_State(s, requestId)
  ELSE s

\* what checkForIllegalMediaSwitch returns
checkForIllegalMediaSwitch(s, trackInfo) ==
  illegalMediaSwitch(s.loaderType, s.currentMediaInfo_, trackInfo)

\* an illegal switch that leaves no trace
checkForIllegalMediaSwitch_Silent(s, trackInfo) == s

\* the state checkForIllegalMediaSwitch leaves when the switch is illegal
checkForIllegalMediaSwitch_State(s, trackInfo) ==
  trigger(error([s EXCEPT !.refused = @ \cup {s.pendingSegment_.requestId}],
                "illegal media switch", Infinity),
          "error")

handleTrackInfo_(s, requestId, trackInfo) ==
  IF checkForAbort_(s, requestId) THEN checkForAbort_State(s, requestId)
  ELSE LET l == Logged(s, Ev("trackInfo", requestId, 0, trackInfo, s.currentMediaInfo_))
           a == IF l.currentMediaInfo_ # Some(trackInfo)
                  THEN trigger([l EXCEPT !.appendInitSegment_ = [audio |-> TRUE, video |-> TRUE],
                                         !.initSent = [audio |-> NoPlaylist, video |-> NoPlaylist],
                                         !.currentMediaInfo_ = Some(trackInfo)],
                               "trackinfo")
                  ELSE l
       IN IF checkForIllegalMediaSwitch(l, trackInfo)
            THEN checkForIllegalMediaSwitch_State(l, trackInfo)
            ELSE checkCallQueue([a EXCEPT !.pendingSegment_.trackInfo = TRUE])

handleTimingInfo_(s, requestId, mediaType, time) ==
  IF checkForAbort_(s, requestId) THEN checkForAbort_State(s, requestId)
  ELSE checkCallQueue(
         IF mediaType = "video"
           THEN [s EXCEPT !.pendingSegment_.videoTimingInfo = Some(time)]
           ELSE [s EXCEPT !.pendingSegment_.audioTimingInfo = Some(time)])

updateSourceBufferTimestampOffset_(s) ==
  LET seg == s.pendingSegment_
      offset == Minus(seg.timestampOffset, Val(seg.timingInfoStart))
      didChange == \/ ~StrictEq(offset, s.timestampOffsets.video)
                   \/ ~StrictEq(offset, s.timestampOffsets.audio)
      a == [s EXCEPT !.pendingSegment_.timestampOffset = offset,
                     !.pendingSegment_.changedTimestampOffset = TRUE,
                     !.timestampOffsets = [video |-> offset, audio |-> offset]]
  IN IF \/ seg.timestampOffset = Null
        \/ ~IsSome(seg.timingInfoStart)
        \/ seg.changedTimestampOffset
        \/ s.loaderType # "main"
       THEN s
       ELSE IF didChange
         THEN Logged(a, Ev("timestampoffset", seg.requestId, seg.timeline, offset, Ctx(s)))
         ELSE a

\* segment.map of the segments of playlist pl: every rendition has its own
\* initialization segment, known by its id (initSegmentId)
MapOf(pl) == Some(pl.uri)

updateAppendInitSegmentStatus(s, type) ==
  LET seg == s.pendingSegment_
      a == IF /\ s.loaderType = "main"
              /\ IsNumber(seg.timestampOffset)
              /\ ~seg.changedTimestampOffset
             THEN [s EXCEPT !.appendInitSegment_ = [audio |-> TRUE, video |-> TRUE]]
             ELSE s
  IN IF a.playlistOfLastInitSegment_[type] # seg.playlist
       THEN [a EXCEPT !.appendInitSegment_[type] = TRUE]
       ELSE a

\* initSegment: TRUE when the result of the transmuxer carries an init
\* segment; map: None when the segment has no map. Returns the loader and
\* whether an init segment is handed to the append.
getInitSegmentAndUpdateState_(s, type, initSegment, pl, map) ==
  LET sameId == IsSome(map) /\ s.activeInitSegmentId_ = Some(Val(map))
      a == IF IsSome(map) THEN [s EXCEPT !.activeInitSegmentId_ = Some(Val(map))] ELSE s
      \* initSegmentForMap(map, true).bytes: the bytes are stored by then
      bytes == IsSome(map) \/ initSegment
  IN IF sameId THEN [self |-> s, initSegment |-> FALSE]
     ELSE IF bytes /\ a.appendInitSegment_[type]
       THEN [self |-> [a EXCEPT !.playlistOfLastInitSegment_[type] = pl,
                                !.appendInitSegment_[type] = IsSome(map),
                                !.activeInitSegmentId_ = None],
             initSegment |-> TRUE]
     ELSE [self |-> a, initSegment |-> FALSE]

\* sourceUpdater_.appendBuffer: bytes of the pending segment reach the sink;
\* from is the request the bytes were fetched for, init tells whether the
\* bytes of the init segment go first
appendToSourceBuffer_(s, type, initSegment, from) ==
  LET seg == s.pendingSegment_
      video == initSegment /\ type = "video" /\ ~seg.videoInitDataAppended
      audio == initSegment /\ ~video /\ type = "audio" /\ ~seg.audioInitDataAppended
      a == [s EXCEPT !.pendingSegment_.videoInitDataAppended = @ \/ video,
                     !.pendingSegment_.audioInitDataAppended = @ \/ audio,
                     !.initSent[type] = IF video \/ audio THEN seg.playlist ELSE @]
  IN Logged(a, Ev("appendBuffer", seg.requestId, seg.timeline,
                  [type |-> type, from |-> from, init |-> video \/ audio,
                   playlist |-> seg.playlist, sent |-> s.initSent[type]],
                  Ctx(s)))

\* the transmuxer hands an init segment out with the data of a segment that
\* is not fragmented mp4; fragmented mp4 has its init segment in the map
appendData_(s, type, byteLength, from) ==
  IF byteLength = 0 THEN s
  ELSE IF type = "audio" /\ s.audioDisabled_ THEN s
  ELSE LET seg == s.pendingSegment_
           r == getInitSegmentAndUpdateState_(
                  s, type, ~seg.isFmp4, seg.playlist,
                  IF seg.isFmp4 THEN MapOf(seg.playlist) ELSE None)
       IN appendToSourceBuffer_(r.self, type, r.initSegment, from)

\* segmentInfo.timingInfo.start as handleData_ sets it; <<>> when reading the
\* timing info of the media type throws
timingInfoStartForData(s, type, isFmp4) ==
  LET seg == s.pendingSegment_
      ofType == IF type = "video" THEN seg.videoTimingInfo ELSE seg.audioTimingInfo
      useVideoTimingInfo == s.loaderType = "main" /\ Val(s.currentMediaInfo_).hasVideo
  IN IF isFmp4 THEN (IF IsSome(ofType) THEN Some(ofType) ELSE None)
     ELSE IF ~IsSome(s.currentMediaInfo_) THEN None
     ELSE IF useVideoTimingInfo /\ ~IsSome(seg.videoTimingInfo) THEN None
     ELSE IF IsSome(seg.timingInfoStart) THEN Some(seg.timingInfoStart)
     ELSE IF ~useVideoTimingInfo
       THEN (IF IsSome(seg.audioTimingInfo) THEN Some(seg.audioTimingInfo) ELSE None)
     ELSE Some(seg.videoTimingInfo)

handleData_(s, requestId, type, byteLength, isFmp4) ==
  IF checkForAbort_(s, requestId) THEN checkForAbort_State(s, requestId)
  ELSE LET start == timingInfoStartForData(s, type, isFmp4)
           a == [s EXCEPT !.pendingSegment_.isFmp4 = isFmp4,
                          !.pendingSegment_.timingInfo = TRUE]
           b == [a EXCEPT !.pendingSegment_.timingInfoStart = Val(start)]
           c == updateSourceBufferTimestampOffset_(updateAppendInitSegmentStatus(b, type))
           d == [c EXCEPT !.pendingSegment_.hasAppendedData_ = TRUE]
       IN IF ~IsSome(start) THEN Throw(a)
          ELSE IF ~s.useFetch THEN appendData_(d, type, byteLength, requestId)
          ELSE d

\* no check of the request id: the chunk goes to whatever segment is pending
handleMediaChunk_(s, requestId, type) ==
  IF ~HasPending(s) THEN Throw(s)
  ELSE LET a == [s EXCEPT !.pendingSegment_.isFmp4 = TRUE,
                          !.pendingSegment_.timingInfo = TRUE]
           b == IF ~a.pendingSegment_.segmentInfoInitDataApplied
                  THEN [updateSourceBufferTimestampOffset_(updateAppendInitSegmentStatus(a, type)) EXCEPT
                          !.pendingSegment_.segmentInfoInitDataApplied = TRUE]
                  ELSE a
           c == [b EXCEPT !.pendingSegment_.hasAppendedData_ = TRUE]
       IN appendData_(c, type, 1, requestId)


\* ------------------------------------------------------------- appends
\* What the end of a request reads from outside the loader:
\*   videoResult, audioResult   what sourceUpdater_.videoQueueCallback and
\*                              audioQueueCallback return
\*   lagging    segment.end && currentTime_() - segment.end > 3 * targetDuration
\*   endList    playlist.endList && mediaSource_.readyState === 'open'
\*   buffered   buffered_() as a timelinechange listener reads it
isEndOfStream_(index, pl, in) ==
  pl # NoPlaylist /\ in.endList /\ index + 1 = pl.length

endOfStream(s) == pause(s)

\* a timeout that leaves the statistics alone
handleTimeout_Silent(s) == s

\* the loader only writes mediaRequestsTimedout, bandwidth and roundTrip: the
\* writes are effects of the step
handleTimeout_(s) ==
  LET a == Logged(s, Ev("mediaRequestsTimedout", 0, 0, 1, 0))
      b == Logged(a, Ev("bandwidth", 0, 0, 1, 0))
  IN trigger(b, "bandwidthupdate")

\* the bytes the transport received for a segment, and the milliseconds between
\* the end of its requests and the end of its appends
BytesReceived == 1
ElapsedTime == 2

\* stats.bytesReceived becomes the byte length of the pending segment
saveBandwidthRelatedStats_(s, bytesReceived) ==
  [s EXCEPT !.pendingSegment_.byteLength = bytesReceived]

\* the sample folded into throughput.rate, in bits per second
segmentProcessingThroughput(byteLength, segmentProcessingTime) ==
  (byteLength * 8 * 1000) \div segmentProcessingTime

\* ++throughput.count and the sample of the segment: x is the segment's byte
\* length, the bytes received for it and the processing time, y the sample
recordThroughput_(s, segmentInfo) ==
  Logged(s, Ev("recordThroughput", segmentInfo.requestId, 0,
               [ byteLength |-> segmentInfo.byteLength,
                 bytesReceived |-> segmentInfo.bytesReceived,
                 segmentProcessingTime |-> ElapsedTime + 1 ],
               segmentProcessingThroughput(segmentInfo.byteLength, ElapsedTime + 1)))

\* syncController_.saveSegmentTimingInfo: the loader hands the segment over;
\* only the main loader asks for the timeline mapping to be saved
saveSegmentTimingInfo(s, segmentInfo) ==
  Logged(s, Ev("saveSegmentTimingInfo", segmentInfo.requestId, segmentInfo.timeline,
               s.loaderType = "main", 0))

\* a completion that treats a sync request as any other request
handleAppendsDone_NoProbe(s, in) ==
  LET segmentInfo == s.pendingSegment_
      a == SetState([recordThroughput_(saveSegmentTimingInfo(trigger(s, "appendsdone"), segmentInfo),
                                       segmentInfo)
                       EXCEPT !.pendingSegment_ = NoSegment], "READY")
      b == [a EXCEPT !.fetchAtBuffer_ = TRUE]
      c == IF b.currentTimeline_ # segmentInfo.timeline
             THEN LET own == [b EXCEPT !.timelineChangeController_ =
                                lastTimelineChange(@, b.loaderType, b.currentTimeline_, segmentInfo.timeline)]
                      l == onTimelineChange(own, in.buffered)
                  IN IF l.loaderType = "main" /\ ~l.audioDisabled_
                       THEN [l EXCEPT !.timelineChangeController_ =
                               lastTimelineChange(@, "audio", b.currentTimeline_, segmentInfo.timeline)]
                       ELSE l
             ELSE b
      d == trigger([c EXCEPT !.currentTimeline_ = segmentInfo.timeline], "syncinfoupdate")
      e == [d EXCEPT !.mediaIndex = Some(segmentInfo.mediaIndex)]
      f == IF isEndOfStream_(segmentInfo.mediaIndex, segmentInfo.playlist, in) THEN endOfStream(e) ELSE e
  IN IF ~HasPending(s)
       THEN (LET r == SetState(s, "READY") IN IF ~paused(r) THEN monitorBuffer_(r) ELSE r)
     ELSE IF in.lagging THEN resetEverything(d)
     ELSE IF ~paused(f) THEN monitorBuffer_(f) ELSE f

handleAppendsDone_(s, in) ==
  LET segmentInfo == s.pendingSegment_
      a == SetState([recordThroughput_(saveSegmentTimingInfo(trigger(s, "appendsdone"), segmentInfo),
                                       segmentInfo)
                       EXCEPT !.pendingSegment_ = NoSegment], "READY")
      b == [a EXCEPT !.fetchAtBuffer_ = TRUE]
      c == IF b.currentTimeline_ # segmentInfo.timeline
             THEN LET own == [b EXCEPT !.timelineChangeController_ =
                                lastTimelineChange(@, b.loaderType, b.currentTimeline_, segmentInfo.timeline)]
                      l == onTimelineChange(own, in.buffered)
                  IN IF l.loaderType = "main" /\ ~l.audioDisabled_
                       THEN [l EXCEPT !.timelineChangeController_ =
                               lastTimelineChange(@, "audio", b.currentTimeline_, segmentInfo.timeline)]
                       ELSE l
             ELSE b
      d == trigger([c EXCEPT !.currentTimeline_ = segmentInfo.timeline], "syncinfoupdate")
      e == [d EXCEPT !.mediaIndex = Some(segmentInfo.mediaIndex)]
      f == IF isEndOfStream_(segmentInfo.mediaIndex, segmentInfo.playlist, in) THEN endOfStream(e) ELSE e
  IN IF ~HasPending(s)
       THEN (LET r == SetState(s, "READY") IN IF ~paused(r) THEN monitorBuffer_(r) ELSE r)
     ELSE IF segmentInfo.isSyncRequest THEN trigger(a, "syncinfoupdate")
     ELSE IF in.lagging THEN resetEverything(d)
     ELSE IF ~paused(f) THEN monitorBuffer_(f) ELSE f

checkAppendsDone_(s, requestId, in) ==
  IF checkForAbort_(s, requestId) THEN checkForAbort_State(s, requestId)
  ELSE LET a == [s EXCEPT !.pendingSegment_.waitingOnAppends = @ - 1]
       IN IF a.pendingSegment_.waitingOnAppends = 0 THEN handleAppendsDone_(a, in) ELSE a

\* a marker of request requestId is put on a queue of the sink; the sink
\* keeps it when it answers "success"
queueCallback(s, wait, result, requestId) ==
  IF ~wait THEN s
  ELSE LET q == IF result = "success"
                  THEN [s EXCEPT !.queueCallbacks[requestId] = @ + 1] ELSE s
       IN IF result # "success" THEN SetState(q, "READY") ELSE q

waitForAppendsToComplete_(s, in) ==
  LET segmentInfo == s.pendingSegment_
      info == Val(s.currentMediaInfo_)
      waitForVideo == s.loaderType = "main" /\ info.hasVideo
      waitForAudio == ~s.audioDisabled_ /\ info.hasAudio /\ ~info.isMuxed
      z == [s EXCEPT !.pendingSegment_.waitingOnAppends = 0]
      \* segments with no data
      n1 == IF ~segmentInfo.timingInfo /\ IsNumber(segmentInfo.timestampOffset)
              THEN [z EXCEPT !.isPendingTimestampOffset_ = TRUE] ELSE z
      n2 == [n1 EXCEPT !.pendingSegment_.timingInfo = TRUE,
                       !.pendingSegment_.timingInfoStart = Some(0),
                       !.pendingSegment_.waitingOnAppends = @ + 1]
      n3 == IF ~n2.isPendingTimestampOffset_ THEN updateSourceBufferTimestampOffset_(n2) ELSE n2
      \* segments with data
      w == [z EXCEPT !.pendingSegment_.waitingOnAppends =
                       (IF waitForVideo THEN 1 ELSE 0) + (IF waitForAudio THEN 1 ELSE 0)]
      v == queueCallback(w, waitForVideo, in.videoResult, segmentInfo.requestId)
  IN IF ~IsSome(s.currentMediaInfo_)
       THEN trigger(error(s, "No starting media returned", Infinity), "error")
     ELSE IF ~segmentInfo.hasAppendedData_
       THEN checkAppendsDone_(n3, segmentInfo.requestId, in)
     ELSE queueCallback(v, waitForAudio, in.audioResult, segmentInfo.requestId)

\* err: "none", "aborted", "timeout" or "failed"
segmentRequestFinished_(s, err, requestId, in) ==
  IF s.callQueue_ # <<>>
    THEN [s EXCEPT !.callQueue_ = Append(@, [err |-> err, requestId |-> requestId, in |-> in])]
  ELSE IF ~HasPending(s) THEN Logged(s, Ev("discard", requestId, 0, 0, 0))
  ELSE IF requestId # s.pendingSegment_.requestId THEN Logged(s, Ev("discard", requestId, 0, 0, 0))
  ELSE IF err # "none"
    THEN LET l == Logged(s, Ev("requestError", requestId, 0, err, 0))
             a == SetState([l EXCEPT !.pendingSegment_ = NoSegment], "READY")
         IN IF err = "aborted" THEN a
            ELSE IF err = "timeout" THEN handleTimeout_(pause(a))
            ELSE trigger(error(Logged(pause(a), Ev("mediaRequestsErrored", 0, 0, 1, 0)),
                               err, Undefined),
                         "error")
  ELSE LET received == [s EXCEPT !.pendingSegment_.bytesReceived = BytesReceived]
           saved == IF ~s.useFetch THEN saveBandwidthRelatedStats_(received, BytesReceived)
                    ELSE received
       IN waitForAppendsToComplete_(SetState(saved, "APPENDING"), in)

\* A queued call is segmentRequestFinished_ bound to its error and its request;
\* what the call reads of the sink is drawn when the call is queued.
\* callQueue.forEach((fun) => fun()) on the array that was taken
RECURSIVE runCallQueue(_, _)
runCallQueue(s, callQueue) ==
  IF callQueue = <<>> THEN s
  ELSE LET fun == Head(callQueue)
       IN runCallQueue(
            segmentRequestFinished_(Logged(s, Ev("fun", fun.requestId, 0, fun.err, 0)),
                                    fun.err, fun.requestId, fun.in),
            Tail(callQueue))

\* a drain that runs the calls with the queue left in place
processCallQueue_Kept(s) == runCallQueue(s, s.callQueue_)

\* the queue is cleared before the queued calls are run
processCallQueue_(s) == runCallQueue([s EXCEPT !.callQueue_ = <<>>], s.callQueue_)


\* ------------------------------------------------------------- inputs
GoalBufferLength == 6
BufferedEnds == {None, Some(1), Some(16)}
CurrentTimes == {0, 10}
\* every combination checkBuffer_ can be called with
CheckBufferInputs ==
  [ updating : {FALSE}, syncPoint : {TRUE}, buffered : BufferedEnds,
    currentTime : CurrentTimes, hasPlayed : BOOLEAN, goal : {GoalBufferLength},
    mediaInfo : [mediaIndex : {-1, 0, NumSegments}, startTime : {0}],
    segmentEnd : {None, Some(1)}, ended : BOOLEAN, seeking : BOOLEAN ]
\* what a timer tick of the lifecycle reads: playback at the start of an empty
\* buffer, and one change of it at a time
TickBase ==
  [ updating |-> FALSE, syncPoint |-> TRUE, buffered |-> None, currentTime |-> 0,
    hasPlayed |-> TRUE, goal |-> GoalBufferLength,
    mediaInfo |-> [mediaIndex |-> 0, startTime |-> 0],
    segmentEnd |-> None, ended |-> FALSE, seeking |-> FALSE ]
TickInputs ==
  { TickBase,
    [TickBase EXCEPT !.updating = TRUE],
    [TickBase EXCEPT !.syncPoint = FALSE],
    [TickBase EXCEPT !.buffered = Some(16), !.currentTime = 10],
    [TickBase EXCEPT !.buffered = Some(16), !.hasPlayed = FALSE],
    [TickBase EXCEPT !.mediaInfo.mediaIndex = NumSegments],
    [TickBase EXCEPT !.segmentEnd = Some(1)],
    [TickBase EXCEPT !.ended = TRUE] }
QueueResults == {"success", "error"}
DoneBase ==
  [ videoResult |-> "success", audioResult |-> "success",
    lagging |-> FALSE, endList |-> FALSE, buffered |-> None ]
DoneInputs ==
  { DoneBase,
    [DoneBase EXCEPT !.videoResult = "error"],
    [DoneBase EXCEPT !.audioResult = "error"],
    [DoneBase EXCEPT !.lagging = TRUE],
    [DoneBase EXCEPT !.endList = TRUE] }

\* ------------------------------------------------------------- Init
Init ==
  /\ loaderType \in LoaderTypes
  /\ useFetch \in BOOLEAN
  /\ state = "INIT"
  /\ checkBufferTimeout_ = FALSE
  /\ playlist_ = NoPlaylist
  /\ mediaIndex = None
  /\ pendingSegment_ = NoSegment
  /\ currentTimeline_ = -1
  /\ currentMediaInfo_ = None
  /\ syncPoint_ = TRUE
  /\ fetchAtBuffer_ = FALSE
  /\ isPendingTimestampOffset_ = FALSE
  /\ audioDisabled_ = FALSE
  /\ callQueue_ = <<>>
  /\ loadQueue_ = <<>>
  /\ nextId = 1
  /\ net = [i \in RequestIds |-> NetIdle]
  /\ segmentTrackAndTimingInfoHandled = FALSE
  /\ queueCallbacks = [i \in RequestIds |-> 0]
  /\ ready = FALSE
  /\ timestampOffsets = [video |-> Num(0), audio |-> Num(0)]
  /\ timelineChangeController_ = [pending |-> NoChanges, last |-> NoChanges]
  /\ appendInitSegment_ = [audio |-> TRUE, video |-> TRUE]
  /\ playlistOfLastInitSegment_ = [audio |-> NoPlaylist, video |-> NoPlaylist]
  /\ activeInitSegmentId_ = None
  /\ initSent = [audio |-> NoPlaylist, video |-> NoPlaylist]
  /\ refused = {}
  /\ fetch = NoFetch
  /\ log = <<>>
  /\ calls = 0

\* ------------------------------------------------------------- player calls
Load ==
  \/ state = "INIT" /\ Step(load(Self))
  \/ state # "INIT" /\ Budget /\ Call(load(Self))

SetPlaylist ==
  /\ playlist_ # NoPlaylist => Budget
  /\ \E newPlaylist \in Playlists :
       /\ newPlaylist.uri = playlist_.uri => newPlaylist.mediaSequence >= playlist_.mediaSequence
       /\ \/ playlist_ = NoPlaylist /\ newPlaylist.uri = 1 /\ Step(playlist(Self, newPlaylist))
          \/ playlist_ # NoPlaylist /\ Call(playlist(Self, newPlaylist))

Pause ==
  /\ Budget
  /\ Call(pause(Self))

Abort ==
  /\ Budget
  /\ Call(abort(Self))

ResyncLoader ==
  /\ Budget
  /\ Call(resyncLoader(Self))

ResetEverything ==
  /\ Budget
  /\ Call(resetEverything(Self))

Dispose ==
  /\ Budget
  /\ Call(dispose(Self))

\* the player disables the audio of the main loader when a separate loader
\* fetches demuxed audio
SetAudio ==
  /\ loaderType = "main"
  /\ Budget
  /\ \E enable \in BOOLEAN :
       Call(setAudio(Self, enable))

\* the buffer-check timer fires
Tick ==
  /\ checkBufferTimeout_
  /\ state = "READY" => nextId <= MaxRequests
  \* a loader that is not READY reads nothing on a tick
  /\ \E in \in (IF state = "READY" THEN TickInputs ELSE {TickBase}) :
       Step(monitorBufferTick_(Self, in))


\* ------------------------------------------------------------- buffered transport
\* media types a track info announces
TypesOf(trackInfo) ==
  (IF trackInfo.hasAudio THEN {"audio"} ELSE {}) \cup (IF trackInfo.hasVideo THEN {"video"} ELSE {})

RECURSIVE timingInfos(_, _, _, _)
timingInfos(s, requestId, types, time) ==
  IF types = {} \/ s.threw THEN s
  ELSE LET type == IF "audio" \in types THEN "audio" ELSE "video"
       IN timingInfos(handleTimingInfo_(s, requestId, type, time), requestId, types \ {type}, time)

Progress ==
  /\ ~useFetch
  /\ \E id \in RequestIds :
       /\ InFlight(net[id])
       /\ Step(handleProgress_(Self, id))

TrackInfoArrives ==
  /\ ~useFetch
  /\ \E id \in RequestIds :
       /\ net[id].phase = "open"
       /\ \E trackInfo \in TrackInfosOf(loaderType) :
            Step(handleTrackInfo_(
              [Self EXCEPT !.net[id].phase = "tracked", !.net[id].trackInfo = trackInfo],
              id, trackInfo))

TimingInfoArrives ==
  /\ ~useFetch
  /\ \E id \in RequestIds :
       /\ net[id].phase = "tracked"
       /\ \E time \in TimingStarts :
            Step(timingInfos([Self EXCEPT !.net[id].phase = "timed"],
                             id, TypesOf(net[id].trackInfo), time))

\* The container is a property of the rendition: the segments of the first
\* rendition are MPEG-TS, which the transmuxer turns into fragments with an
\* init segment of their own, those of the second are fragmented mp4 with a
\* map. The data of a callback is not empty (the chunked transport delivers
\* empty data at the end of its stream).
DataArrives ==
  /\ ~useFetch
  /\ \E id \in RequestIds :
       /\ net[id].phase = "timed"
       /\ \E type \in TypesOf(net[id].trackInfo) :
            Step(handleData_([Self EXCEPT !.net[id] = [NetIdle EXCEPT !.phase = "data"]],
                             id, type, 1, IsFmp4(playlist_)))

\* the request ends: with no error, or with the error the transport reports
\* (it timed out, it failed, or it was aborted from outside the loader)
RequestDone ==
  /\ ~useFetch
  /\ \E id \in RequestIds :
       /\ InFlight(net[id])
       /\ \E err \in {"none", "timeout", "failed", "aborted"} :
            \* a request that ends in an error, or that is not the pending
            \* one, reads nothing of the sink
            \E in \in (IF err = "none" /\ id = pendingSegment_.requestId
                          THEN DoneInputs ELSE {DoneBase}) :
              Step(segmentRequestFinished_([Self EXCEPT !.net[id] = NetClosed], err, id, in))

\* a cancelled request reports that it was aborted
RequestAborted ==
  \E id \in RequestIds :
    /\ net[id].phase = "cancelled"
    /\ Step(segmentRequestFinished_([Self EXCEPT !.net[id] = NetClosed], "aborted", id, DoneBase))

\* ------------------------------------------------------------- chunked transport
\* the bytes of a chunk of the lifecycle model, whose content is not followed
SomeBytes == <<1>>

\* handleSegmentBytes for a chunk: track info, timing info and the chunk, in
\* one call; a callback that throws ends the read loop of the fetch
handleSegmentBytesChunk(s, id, trackInfo, bytes) ==
  LET types == (IF trackInfo.hasAudio /\ ~trackInfo.isMuxed THEN {"audio"} ELSE {})
                 \cup (IF trackInfo.hasVideo THEN {"video"} ELSE {})
      a == handleTrackInfo_(Logged(s, Ev("trackInfoFn", id, 0, trackInfo, 0)), id, trackInfo)
      b == timingInfos(IF types # {} THEN Logged(a, Ev("timingInfoFn", id, 0, types, 0)) ELSE a,
                       id, types, CHOOSE time \in TimingStarts : TRUE)
      c == [b EXCEPT !.segmentTrackAndTimingInfoHandled = TRUE]
      d == handleMediaChunk_(Logged(c, Ev("chunkFn", id, 0, bytes, 0)),
                             id, IF trackInfo.hasAudio THEN "audio" ELSE "video")
  IN IF a.threw THEN a ELSE IF b.threw THEN b ELSE d

\* handleSegmentBytes at the end of the stream
handleSegmentBytesDone(s, id, trackInfo, bytes, in) ==
  LET a == handleData_(Logged(s, Ev("dataFn", id, 0, bytes, 0)),
                       id, IF trackInfo.hasAudio THEN "audio" ELSE "video", Len(bytes), TRUE)
  IN IF ~s.segmentTrackAndTimingInfoHandled THEN s
     ELSE IF a.threw THEN a
     ELSE segmentRequestFinished_(Logged(a, Ev("doneFn", id, 0, 0, 0)), "none", id, in)

Broken(s, id) == IF s.threw THEN [s EXCEPT !.net[id] = NetClosed] ELSE s

ChunkArrives ==
  /\ useFetch
  /\ \E id \in RequestIds :
       /\ net[id].phase = "open"
       /\ net[id].chunks < MaxChunks
       /\ \E trackInfo \in TrackInfosOf(loaderType) :
            /\ net[id].chunks > 0 => trackInfo = net[id].trackInfo
            /\ Step(Broken(handleSegmentBytesChunk(
                 [Self EXCEPT !.net[id].chunks = @ + 1, !.net[id].trackInfo = trackInfo],
                 id, trackInfo, SomeBytes), id))

\* the end of the stream of fetch id: waitForCompletion passes it on only when
\* this fetch cut a chunk out of its stream (its firstChunkReceiveTime is set)
streamEnd(s, id, trackInfo, bytes, in) ==
  IF s.net[id].chunks = 0 THEN [s EXCEPT !.net[id] = NetClosed]
  ELSE handleSegmentBytesDone([s EXCEPT !.net[id] = NetClosed], id, trackInfo, bytes, in)

StreamEnd ==
  /\ useFetch
  /\ \E id \in RequestIds :
       /\ net[id].phase = "open"
       /\ \E trackInfo \in TrackInfosOf(loaderType) :
            /\ net[id].chunks > 0 => trackInfo = net[id].trackInfo
            \* a request that is not the pending one reads nothing of the sink
            /\ \E byteLength \in {0, 1},
                  in \in (IF id = pendingSegment_.requestId THEN DoneInputs ELSE {DoneBase}) :
                 Step(streamEnd(Self, id, trackInfo,
                                IF byteLength = 0 THEN <<>> ELSE SomeBytes, in))

\* a failed fetch throws in the transport and calls nothing of the loader
FetchFails ==
  /\ useFetch
  /\ \E id \in RequestIds :
       /\ net[id].phase = "open"
       /\ Step([Self EXCEPT !.net[id] = NetClosed])

\* ------------------------------------------------------------- sink
QueueCallback ==
  \E id \in RequestIds :
    /\ queueCallbacks[id] > 0
    \* a request that is not the pending one reads nothing of the sink
    /\ \E in \in (IF id = pendingSegment_.requestId THEN DoneInputs ELSE {DoneBase}) :
         Step(checkAppendsDone_([Self EXCEPT !.queueCallbacks[id] = @ - 1], id, in))

\* the sink's ready event and the loader's listener of it
SinkReady ==
  /\ ~ready
  /\ LET r == [Self EXCEPT !.ready = TRUE]
     IN Step(IF hasEnoughInfoToAppend_Throws(r) THEN r
               ELSE IF hasEnoughInfoToAppend_(r) THEN processCallQueue_Empty(r)
               ELSE r)

\* ------------------------------------------------------------- the other loader
Other == IF loaderType = "main" THEN "audio" ELSE "main"

\* the timeline the other loader is in: it walks the timelines forward
OtherTimeline ==
  IF IsSome(timelineChangeController_.last[Other])
    THEN Val(timelineChangeController_.last[Other]).to ELSE -1

\* fillBuffer_ of the other loader announces a timeline change
OtherPendingTimelineChange ==
  /\ ~IsSome(timelineChangeController_.pending[Other])
  /\ OtherTimeline < MaxOtherTimeline
  /\ Step(onPendingTimelineChange(
       [Self EXCEPT !.timelineChangeController_ =
          pendingTimelineChange(@, Other, OtherTimeline, OtherTimeline + 1)]))

\* handleAppendsDone_ of the other loader commits the change it announced; a
\* main loader whose audio is enabled commits it for audio too
OtherLastTimelineChange ==
  /\ IsSome(timelineChangeController_.pending[Other])
  /\ \E buffered \in {None, Some(1)}, both \in BOOLEAN :
    /\ both => Other = "main"
    /\ LET change == Val(timelineChangeController_.pending[Other])
           a == [Self EXCEPT !.timelineChangeController_ = lastTimelineChange(@, Other, change.from, change.to)]
           b == onTimelineChange(a, buffered)
           c == IF both
                  THEN onTimelineChange([b EXCEPT !.timelineChangeController_ = lastTimelineChange(@, "audio", change.from, change.to)], buffered)
                  ELSE b
       IN Step(c)

\* abort_ of the other loader
OtherClearPendingTimelineChange ==
  /\ IsSome(timelineChangeController_.pending[Other])
  /\ Step([Self EXCEPT !.timelineChangeController_ = clearPendingTimelineChange(@, Other)])

\* ------------------------------------------------------------- Next
Next ==
  \/ Load
  \/ SetPlaylist
  \/ Pause
  \/ Abort
  \/ ResyncLoader
  \/ ResetEverything
  \/ Dispose
  \/ SetAudio
  \/ Tick
  \/ Progress
  \/ TrackInfoArrives
  \/ TimingInfoArrives
  \/ DataArrives
  \/ RequestDone
  \/ RequestAborted
  \/ ChunkArrives
  \/ StreamEnd
  \/ FetchFails
  \/ QueueCallback
  \/ SinkReady
  \/ OtherPendingTimelineChange
  \/ OtherLastTimelineChange
  \/ OtherClearPendingTimelineChange

Spec == Init /\ [][Next]_vars

TypeOK ==
  /\ state \in States
  /\ nextId \in 1..(MaxRequests + 1)
  /\ callQueue_ = <<>>

\* ------------------------------------------------------------- checkBuffer_ alone
\* A loader that is READY, in any position a run can leave it in: any
\* playlist, any media index (null, negative after a refresh that moved the
\* window past it, up to the last segment), with or without a sync point, in
\* any timeline. checkBuffer_ reads neither the type of the loader nor its
\* transport.
InitCheckBuffer ==
  /\ loaderType = "main"
  /\ useFetch = FALSE
  /\ state = "READY"
  /\ checkBufferTimeout_ = TRUE
  /\ playlist_ \in Playlists
  /\ mediaIndex \in {None} \cup { Some(i) : i \in (0 - MaxSequence)..(NumSegments - 1) }
  /\ pendingSegment_ = NoSegment
  /\ currentTimeline_ \in -1..MaxTimeline
  /\ currentMediaInfo_ = None
  /\ syncPoint_ \in BOOLEAN
  /\ fetchAtBuffer_ \in BOOLEAN
  /\ isPendingTimestampOffset_ = FALSE
  /\ audioDisabled_ = FALSE
  /\ callQueue_ = <<>>
  /\ loadQueue_ = <<>>
  /\ nextId = 1
  /\ net = [i \in RequestIds |-> NetIdle]
  /\ segmentTrackAndTimingInfoHandled = FALSE
  /\ queueCallbacks = [i \in RequestIds |-> 0]
  /\ ready = FALSE
  /\ timestampOffsets = [video |-> Num(0), audio |-> Num(0)]
  /\ timelineChangeController_ = [pending |-> NoChanges, last |-> NoChanges]
  /\ appendInitSegment_ = [audio |-> TRUE, video |-> TRUE]
  /\ playlistOfLastInitSegment_ = [audio |-> NoPlaylist, video |-> NoPlaylist]
  /\ activeInitSegmentId_ = None
  /\ initSent = [audio |-> NoPlaylist, video |-> NoPlaylist]
  /\ refused = {}
  /\ fetch = NoFetch
  /\ log = <<>>
  /\ calls = 0

\* checkBuffer_ is called as fillBuffer_ calls it, and what it returns is
\* recorded; the call changes nothing of the loader, and a run makes one
CheckBuffer ==
  \E in \in CheckBufferInputs :
    /\ state = "READY"
    /\ log = <<>>
    /\ Step(Logged(Self,
         Ev("checkBuffer_returns", 0, 0,
            [playlist |-> playlist_, mediaIndex |-> mediaIndex, in |-> in],
            checkBuffer_(Self, playlist_, mediaIndex, in))))

NextCheckBuffer == CheckBuffer

SpecCheckBuffer == InitCheckBuffer /\ [][NextCheckBuffer]_vars

\* ------------------------------------------------------------- back buffer alone
\* The inputs of the back-buffer arithmetic: whole seconds; a seekable window
\* that is empty or starts before, near or after the playhead; a playlist with
\* or without a target duration; the default back-buffer length and shorter
\* ones.
SeekableStarts == {None, Some(0), Some(5), Some(35)}
TargetDurations == {0, 2, 10}
BackBufferLengths == {0, 1, BACK_BUFFER_LENGTH}

\* safeBackBufferTrimTime and trimBackBuffer_ are called once, and what they
\* return is recorded
TrimBackBuffer ==
  \E seekable \in SeekableStarts, currentTime \in 0..MaxTime,
     targetDuration \in TargetDurations, backBufferLength \in BackBufferLengths :
    /\ log = <<>>
    /\ Step(Logged(Self,
         Ev("trimBackBuffer_", 0, 0,
            [seekable |-> seekable, currentTime |-> currentTime,
             targetDuration |-> targetDuration, backBufferLength |-> backBufferLength],
            [trimTime |-> safeBackBufferTrimTime(seekable, currentTime, targetDuration, backBufferLength),
             removed |-> trimBackBuffer_(seekable, currentTime, targetDuration, backBufferLength)])))

NextTrim == TrimBackBuffer

SpecTrim == Init /\ [][NextTrim]_vars


\* ------------------------------------------------------------- chunked fetch alone
\* A byte of the media stream is known by its position in the stream, from 1;
\* the bytes of the init segment are one byte 0.  A box is its header, of
\* HeaderSize bytes (a size of SizeLength bytes, then the type), and a
\* payload: PayloadSize bytes in a media-data box, none in any other box.
HeaderSize == 8
SizeLength == 4
BoxTypes == {"moof", "mdat"}
InitBytes == <<0>>

BoxSize(type) == IF type = "mdat" THEN HeaderSize + PayloadSize ELSE HeaderSize

\* bytes of the stream before box i
RECURSIVE StartOf(_, _)
StartOf(stream, i) == IF i <= 1 THEN 0 ELSE StartOf(stream, i - 1) + BoxSize(stream[i - 1])

StreamLength(stream) == StartOf(stream, Len(stream) + 1)

\* the box whose first byte is byte p of the stream, 0 when there is none
BoxStarting(stream, p) ==
  IF \E i \in DOMAIN stream : StartOf(stream, i) + 1 = p
    THEN CHOOSE i \in DOMAIN stream : StartOf(stream, i) + 1 = p
    ELSE 0

\* The size read at offset of data.  The bytes past the end of data read as
\* undefined, which the shifts turn into 0: a size below 256 whose last byte
\* is missing reads as 0.  The bytes of a payload are 0.
parseUint32(stream, data, offset) ==
  LET i == BoxStarting(stream, data[offset + 1])
  IN IF Len(data) - offset < SizeLength \/ i = 0 THEN 0 ELSE BoxSize(stream[i])

parseIsoBoxType(stream, data, offset) ==
  stream[BoxStarting(stream, data[offset - (SizeLength - 1)])]

IsoBoxSearchInfo(lastCompletedOffset, found, size) ==
  [lastCompletedOffset |-> lastCompletedOffset, found |-> found, size |-> size]

\* the while loop of findLastTopIsoBoxCompleted; boxInfo is None until a box
\* of one of the types is found complete
RECURSIVE scanBoxes(_, _, _, _, _, _)
scanBoxes(stream, types, data, offset, boxInfo, lastCompletedOffset) ==
  LET boxSize == parseUint32(stream, data, offset)
      complete == offset + boxSize <= Len(data)
      isType == parseIsoBoxType(stream, data, offset + SizeLength) \in types
  IN IF offset >= Len(data) \/ boxSize = 0
       THEN (IF IsSome(boxInfo) THEN Val(boxInfo)
             ELSE IsoBoxSearchInfo(lastCompletedOffset, FALSE, 0))
     ELSE scanBoxes(stream, types, data, offset + boxSize,
                    IF complete /\ isType
                      THEN Some(IsoBoxSearchInfo(offset, TRUE, boxSize)) ELSE boxInfo,
                    IF complete /\ ~isType
                      THEN offset + boxSize ELSE lastCompletedOffset)

findLastTopIsoBoxCompleted(stream, types, buffer, offset) ==
  IF offset + HeaderSize >= Len(buffer)
    THEN IsoBoxSearchInfo(0, FALSE, 0)
    ELSE scanBoxes(stream, types, buffer, offset, None, 0)

concatTypedArray(remaining, data) ==
  IF Len(View(remaining)) = 0 THEN Bytes(data) ELSE Bytes(View(remaining) \o data)

\* handleSegmentBytes: segment.map.tracks is read first, and reading a track
\* of it throws when the init segment gave none
handleSegmentBytes(s, bytes, segmentDone, in) ==
  LET id == s.fetch.id
      trackInfo == s.net[id].trackInfo
  IN IF bytes # <<>> /\ ~segmentDone
       THEN (IF ~s.fetch.tracks THEN Throw(s) ELSE handleSegmentBytesChunk(s, id, trackInfo, bytes))
     ELSE IF s.segmentTrackAndTimingInfoHandled
       THEN (IF ~s.fetch.tracks THEN Throw(s) ELSE handleSegmentBytesDone(s, id, trackInfo, bytes, in))
     ELSE s

\* a gate that does not wait for the first chunk
waitForCompletion_NoChunk(s, responseBuffer, in) ==
  IF \/ s.fetch.needInit /\ s.fetch.initRcvd
     \/ ~s.fetch.needInit
    THEN handleSegmentBytes(s, responseBuffer, s.fetch.segmentDone, in)
    ELSE s

\* needInit, initRcvd, firstChunkReceiveTime, firstChunkFlag and segmentDone
\* are passed by value at the call: they are the values of the closure then
waitForCompletion(s, responseBuffer, in) ==
  IF /\ s.fetch.firstChunkReceiveTime > 0
     /\ \/ s.fetch.needInit /\ s.fetch.initRcvd
        \/ ~s.fetch.needInit
    THEN handleSegmentBytes(s, responseBuffer, s.fetch.segmentDone, in)
    ELSE s

\* isMp4: detectContainerForBytes finds an mp4 init segment, with tracks
handleInitSegmentResponse(s, isMp4, in) ==
  IF ~isMp4 THEN s
  ELSE waitForCompletion([s EXCEPT !.fetch.tracks = TRUE], InitBytes, in)

handleMediaDataResponse(s, responseBuffer, in) ==
  waitForCompletion(s, responseBuffer, in)

\* initReq.onload: a status outside 2xx throws before anything is set
initReqOnload(s, ok, isMp4, in) ==
  IF ~ok THEN [s EXCEPT !.fetch.initReq = FALSE]
  ELSE handleInitSegmentResponse(
         [s EXCEPT !.fetch.initReq = FALSE, !.fetch.initRcvd = TRUE], isMp4, in)

\* offset = 0, which an exception of the callbacks skips
offsetReset(called) ==
  IF called.threw THEN called ELSE [called EXCEPT !.fetch.offset = 0]

\* one result of reader.read(); the buffer of a typed array is the whole
\* array buffer it is a view of; offset is reset after the callbacks return
processMediaSegmentData(s, value, done, in) ==
  LET f == s.fetch
      remaining == concatTypedArray(f.remaining, value)
      boxesInfo == findLastTopIsoBoxCompleted(f.stream, {"mdat"}, View(remaining), f.offset)
      end == boxesInfo.lastCompletedOffset + boxesInfo.size
      whole == end = Len(View(remaining))
      data == IF whole THEN remaining ELSE Bytes(SubSeq(View(remaining), 1, end))
      found == [s EXCEPT
                  !.fetch.remaining = IF whole THEN Bytes(<<>>)
                                      ELSE [remaining EXCEPT !.from = @ + end],
                  !.fetch.segmentDone = FALSE,
                  !.fetch.firstChunkFlag = (f.firstChunkReceiveTime = 0),
                  !.fetch.firstChunkReceiveTime = IF @ = 0 THEN 1 ELSE @]
      called == handleMediaDataResponse(found, data.buf, in)
  IN IF done
       THEN handleMediaDataResponse(
              [s EXCEPT !.fetch.segmentDone = TRUE, !.fetch.reading = FALSE],
              f.remaining.buf, in)
     ELSE IF value = <<>> THEN s
     ELSE IF boxesInfo.found
       THEN offsetReset(called)
     ELSE [s EXCEPT !.fetch.remaining = remaining,
                    !.fetch.offset = boxesInfo.lastCompletedOffset]

\* the streams of the study: every sequence of one to MaxBoxes boxes
RECURSIVE StreamsOf(_)
StreamsOf(n) ==
  IF n = 0 THEN {<<>>}
  ELSE StreamsOf(n - 1) \cup
       { Append(st, type) : st \in { x \in StreamsOf(n - 1) : Len(x) = n - 1 }, type \in BoxTypes }
Streams == StreamsOf(MaxBoxes) \ {<<>>}

\* The loader after load(), playlist() and the tick that issues its first
\* request, on the chunked transport.
Started(s) ==
  monitorBufferTick_(load(playlist(s, Playlist(1, 0, NumSegments))), TickBase)

\* audioSegmentFetch is called for the pending request: the closure is new;
\* an init segment is needed when the map of the segment has no bytes yet
audioSegmentFetch(s, stream, needInit, trackInfo) ==
  [s EXCEPT !.fetch = [NoFetch EXCEPT !.id = s.pendingSegment_.requestId,
                                      !.stream = stream, !.reading = TRUE,
                                      !.needInit = needInit, !.initReq = needInit,
                                      !.tracks = ~needInit],
            !.net[s.pendingSegment_.requestId].trackInfo = trackInfo,
            !.log = <<>>]

\* a loader on the chunked transport, as constructed
InitFetch ==
  /\ Init
  /\ useFetch

\* the first request of the loader starts a fetch: any stream, with or
\* without an init segment to fetch, any track set the loader can meet
StartFetch ==
  /\ state = "INIT"
  /\ \E stream \in Streams, needInit \in BOOLEAN, trackInfo \in TrackInfosOf(loaderType) :
       Step(audioSegmentFetch(Started(Self), stream, needInit, trackInfo))

\* the callbacks of the transport, as the step logged them
IsCallback(e) == e.op \in {"trackInfoFn", "timingInfoFn", "chunkFn", "dataFn", "doneFn"}

\* the end of a step of the fetch: the callbacks it made join the trace, and
\* an exception of a callback ends the read loop
Recorded(n) ==
  [n EXCEPT !.fetch.trace = @ \o SelectSeq(n.log, IsCallback),
            !.fetch.reading = IF n.threw THEN FALSE ELSE @]

\* the response of the init request arrives
FetchInitResponse ==
  /\ fetch.initReq
  /\ \E ok \in BOOLEAN, isMp4 \in BOOLEAN, in \in DoneInputs :
       /\ ~ok => isMp4
       /\ Step(Recorded(initReqOnload(Self, ok, isMp4, in)))

\* the reader delivers the next bytes of the stream, cut anywhere
FetchRead ==
  /\ fetch.reading
  /\ \E n \in 1..(MaxBoxes * (HeaderSize + PayloadSize)) :
       /\ fetch.pos + n <= StreamLength(fetch.stream)
       /\ Step(Recorded(processMediaSegmentData(
            [Self EXCEPT !.fetch.pos = @ + n],
            [k \in 1..n |-> fetch.pos + k], FALSE, DoneBase)))

\* the reader reports the end of the stream, whole or cut short
FetchDone ==
  /\ fetch.reading
  /\ \E in \in DoneInputs :
       Step(Recorded(processMediaSegmentData(Self, <<>>, TRUE, in)))

NextFetch ==
  \/ StartFetch
  \/ FetchInitResponse
  \/ FetchRead
  \/ FetchDone
  \/ SinkReady
  \/ QueueCallback

SpecFetch == InitFetch /\ [][NextFetch]_vars


\* ------------------------------------------------------------- properties
StateChanges == { log[i] : i \in { j \in DOMAIN log : log[j].op = "statechange" } }
Events(op) == { log[i] : i \in { j \in DOMAIN log : log[j].op = op } }

AllowedTransitions ==
  { <<"INIT", "READY">>, <<"READY", "WAITING">>, <<"WAITING", "APPENDING">>,
    <<"WAITING", "READY">>, <<"APPENDING", "READY">> }
    \cup { <<x, "DISPOSED">> : x \in States \ {"DISPOSED"} }

\* C1: every change of the loader's state, in any step of the player, the
\* timer, the transports, the sink or the other loader, is INIT->READY,
\* READY->WAITING, WAITING->APPENDING, WAITING->READY, APPENDING->READY or
\* X->DISPOSED; nothing leaves DISPOSED and nothing returns to INIT.
C1_StateTransitions ==
  \A e \in StateChanges : <<e.x, e.y>> \in AllowedTransitions

\* a request ends in one step: WAITING->APPENDING and APPENDING->READY
C1_Witness ==
  /\ \E e \in StateChanges : e.x = "WAITING" /\ e.y = "APPENDING"
  /\ \E e \in StateChanges : e.x = "APPENDING" /\ e.y = "READY"

\* C2: loadSegment_ never replaces a pending request: when it runs, no request
\* is pending.
C2_NoOverwrite ==
  \A e \in Events("loadSegment") : e.x = 0

\* C3: after abort() in state WAITING the state is READY, no request is
\* pending and the network operation of the request that was pending is no
\* longer in flight, with either transport.
C3_AbortCancels ==
  \A e \in Events("abort") :
    e.x = "WAITING" =>
      /\ state = "READY"
      /\ ~HasPending(Self)
      /\ e.id # 0 => ~InFlight(net[e.id])

\* the callback of request requestId is stale: no request is pending, or the
\* pending request is another one
Stale(requestId) ==
  pendingSegment_.requestId = 0 \/ pendingSegment_.requestId # requestId

\* record n, the end of a callback, differs from the state in nothing but,
\* when no request is pending, a state that went from APPENDING to READY
Discarded(n) ==
  /\ n.pendingSegment_ = pendingSegment_
  /\ n.mediaIndex = mediaIndex
  /\ n.currentTimeline_ = currentTimeline_
  /\ n.currentMediaInfo_ = currentMediaInfo_
  /\ n.callQueue_ = callQueue_
  /\ n.loadQueue_ = loadQueue_
  /\ n.timestampOffsets = timestampOffsets
  /\ n.queueCallbacks = queueCallbacks
  /\ \A i \in DOMAIN n.log : n.log[i].op \notin {"appendBuffer", "timestampoffset"}
  /\ ~n.threw
  /\ \/ n.state = state
     \/ state = "APPENDING" /\ pendingSegment_.requestId = 0 /\ n.state = "READY"

\* C4: in every state, a progress, track-info, timing-info, data,
\* request-finished or append-done callback of a request that is not the
\* pending one leaves the pending request, the media index, the current
\* timeline, the track info, the queues and the sink as they are; at most the
\* state goes from APPENDING to READY, when no request is pending.
C4_StaleCallbacksDiscarded ==
  \A requestId \in RequestIds :
    Stale(requestId) =>
      /\ Discarded(handleProgress_(Self, requestId))
      /\ \A trackInfo \in TrackInfos :
           Discarded(handleTrackInfo_(Self, requestId, trackInfo))
      /\ \A mediaType \in MediaTypes, time \in TimingStarts :
           Discarded(handleTimingInfo_(Self, requestId, mediaType, time))
      /\ \A type \in MediaTypes, byteLength \in {0, 1}, isFmp4 \in BOOLEAN :
           Discarded(handleData_(Self, requestId, type, byteLength, isFmp4))
      /\ \A err \in {"none", "aborted", "timeout", "failed"} :
           \A in \in (IF err = "none" THEN DoneInputs ELSE {DoneBase}) :
             Discarded(segmentRequestFinished_(Self, err, requestId, in))
      /\ \A in \in DoneInputs :
           Discarded(checkAppendsDone_(Self, requestId, in))

\* the callback of a request was dropped while another request is pending
C4_Witness ==
  \E e \in Events("discard") :
    pendingSegment_.requestId # 0 /\ e.id # pendingSegment_.requestId

\* the effects that C5 is about: requests and appends of the step
RequestsAndAppends == Events("request") \cup Events("appendBuffer")

\* C5: the audio loader requests, and hands to the sink, a segment of a
\* timeline other than its current one only when the last timeline change
\* of main leads to that timeline; the first segment, from timeline -1 to
\* timeline 0, is no exception.
C5_AudioFollowsMain ==
  \A e \in RequestsAndAppends :
    (loaderType = "audio" /\ e.tl # e.y.currentTimeline) =>
      IsSome(e.y.lastMain) /\ Val(e.y.lastMain).to = e.tl

\* C6: the main loader with its audio disabled sets a new timestamp offset
\* (a number) on the sink for a segment of a timeline other than its current
\* one only when a timeline change of audio to that timeline is pending.
C6_MainWaitsForAudio ==
  \A e \in Events("timestampoffset") :
    (loaderType = "main" /\ e.y.audioDisabled /\ IsNumber(e.x) /\ e.tl # e.y.currentTimeline) =>
      IsSome(e.y.pendingAudio) /\ Val(e.y.pendingAudio).to = e.tl

\* the timestamp offsets a step commits, to the transmuxer or to the sink
OffsetsCommitted ==
  { e \in Events("setTransmuxerOffset") \cup Events("timestampoffset") : IsNumber(e.x) }

Refreshes ==
  { e \in Events("playlist") : e.x.old # NoPlaylist /\ e.x.old.uri = e.x.new.uri }

\* C8 as stated: after a refresh the media index and the index of the
\* pending request are the old ones plus newSequence - oldSequence.
C8_ShiftBySequenceDiff ==
  \A e \in Refreshes :
    LET diff == e.x.new.mediaSequence - e.x.old.mediaSequence
    IN /\ IsSome(e.y.mediaIndex) => mediaIndex = Some(Val(e.y.mediaIndex) + diff)
       /\ e.id # 0 => pendingSegment_.mediaIndex = e.y.pendingIndex + diff

\* C8: after a refresh the media index, when not null, and the index of the
\* pending request, when there is one, are the old ones minus
\* (newSequence - oldSequence); a null media index stays null and the
\* pending request stays the same request.
C8_RebaseBySequenceDiff ==
  \A e \in Refreshes :
    LET diff == e.x.new.mediaSequence - e.x.old.mediaSequence
    IN /\ IsSome(e.y.mediaIndex) => mediaIndex = Some(Val(e.y.mediaIndex) - diff)
       /\ ~IsSome(e.y.mediaIndex) => mediaIndex = None
       /\ pendingSegment_.requestId = e.id
       /\ e.id # 0 => pendingSegment_.mediaIndex = e.y.pendingIndex - diff

\* a refresh moved the window while the loader walked forward and a request
\* was pending
C8_Witness ==
  \E e \in Refreshes :
    /\ e.x.new.mediaSequence > e.x.old.mediaSequence
    /\ IsSome(e.y.mediaIndex)
    /\ e.id # 0

\* C9: whatever the buffer, the playlist, the previous media index, hasPlayed,
\* the current time and the sync point, checkBuffer_ returns no segment or a
\* segment info whose mediaIndex i is in [0, playlist.segments.length) and
\* whose segment is playlist.segments[i].
C9_CheckBufferInRange ==
  \A e \in Events("checkBuffer_returns") :
    e.y # NoSegment =>
      /\ 0 <= e.y.mediaIndex
      /\ e.y.mediaIndex < e.x.playlist.length
      /\ e.y.segment = SegmentAt(e.x.playlist, e.y.mediaIndex)

\* checkBuffer_ walked forward from a negative media index to segment 0
C9_Witness ==
  \E e \in Events("checkBuffer_returns") :
    /\ e.x.mediaIndex = Some(-1)
    /\ e.y # NoSegment
    /\ e.y.mediaIndex = 0

\* C10: when the buffered time is at least the goal buffer length,
\* checkBuffer_ returns no segment, played or not, and the step of a READY
\* loader issues no request.
C10_IdleWhenBuffered ==
  \A e \in Events("checkBuffer_") :
    e.x => e.id = 0 /\ Events("request") = {}

\* the end-of-stream stop of checkBuffer_: the candidate is the last segment of
\* the loader's playlist, the media source has ended and nothing seeks
SyncProbeStopped(e) ==
  /\ getSyncSegmentCandidate_(Self, e.x.playlist) = e.x.playlist.length - 1
  /\ e.x.in.ended
  /\ ~e.x.in.seeking

\* C11: checkBuffer_ called without a sync point on a playlist with segments
\* returns no segment only when it is idle (before playback with a second
\* buffered, or the last segment after the end of the stream); otherwise it
\* returns a sync request, for a segment of the loader's current timeline
\* whenever the playlist has one, and for index 0 when the loader has no
\* timeline yet.
C11_SyncProbe ==
  \A e \in Events("checkBuffer_returns") :
    (~syncPoint_ /\ e.x.playlist.length > 0) =>
      /\ e.y = NoSegment <=> (checkBuffer_Idle(e.x.playlist, e.x.in) \/ SyncProbeStopped(e))
      /\ e.y # NoSegment =>
           /\ e.y.isSyncRequest
           /\ IndexesInTimeline(e.x.playlist, currentTimeline_, 0) # <<>> =>
                e.y.timeline = currentTimeline_
           /\ currentTimeline_ = -1 => e.y.mediaIndex = 0

\* a sync probe in the current timeline, past index 0, in a playlist that
\* also holds a segment of another timeline
C11_Witness ==
  \E e \in Events("checkBuffer_returns") :
    /\ ~syncPoint_
    /\ e.y # NoSegment
    /\ e.y.isSyncRequest
    /\ currentTimeline_ >= 0
    /\ e.y.timeline = currentTimeline_
    /\ e.y.mediaIndex > 0
    /\ TimelineOf(SegmentAt(e.x.playlist, 0)) # currentTimeline_

\* C12 as stated: the trim time is at most currentTime - targetDuration and,
\* when the seekable window is not empty, at least the start of the window.
C12_TrimWithinWindow ==
  \A e \in Events("trimBackBuffer_") :
    /\ e.y.trimTime <= e.x.currentTime - e.x.targetDuration
    /\ IsSome(e.x.seekable) => e.y.trimTime >= Val(e.x.seekable)

\* C12: the trim time is at most currentTime - targetDuration and, when the
\* seekable window is not empty and starts at or before
\* currentTime - targetDuration, at least the start of the window.
C12_TrimBounded ==
  \A e \in Events("trimBackBuffer_") :
    /\ e.y.trimTime <= e.x.currentTime - e.x.targetDuration
    /\ (IsSome(e.x.seekable) /\ Val(e.x.seekable) <= e.x.currentTime - e.x.targetDuration) =>
         e.y.trimTime >= Val(e.x.seekable)

\* the window is shorter than the back buffer: the trim time is its start
C12_Witness ==
  \E e \in Events("trimBackBuffer_") :
    /\ IsSome(e.x.seekable)
    /\ Val(e.x.seekable) > e.x.currentTime - e.x.backBufferLength
    /\ Val(e.x.seekable) < e.x.currentTime - e.x.targetDuration
    /\ e.y.trimTime = Val(e.x.seekable)
    /\ e.y.removed = Some(Val(e.x.seekable))

\* the entries of the trace of the fetch that are calls of fn
Calls(fn) == SelectSeq(fetch.trace, LAMBDA e : e.op = fn)

\* the bytes of a sequence of calls, one after the other
RECURSIVE Concatenated(_)
Concatenated(entries) ==
  IF entries = <<>> THEN <<>> ELSE Head(entries).x \o Concatenated(Tail(entries))

\* the end, in the stream, of the last box [of type mdat] that lies whole in
\* the bytes delivered so far; 0 when there is none
LastCompleteEnd(types) ==
  LET ends == { StartOf(fetch.stream, i) + BoxSize(fetch.stream[i]) :
                  i \in { j \in DOMAIN fetch.stream : fetch.stream[j] \in types } }
      whole == { e \in ends : e <= fetch.pos }
  IN IF whole = {} THEN 0 ELSE CHOOSE e \in whole : \A o \in whole : o <= e

\* a callback of the fetch has thrown and ended the read loop
FetchBroken == ~fetch.reading /\ ~fetch.segmentDone

\* C13: as long as no callback has thrown, the chunks emitted so far, one
\* after the other, are the bytes of the stream up to the end of the last
\* media-data box delivered whole (each media-data box with the boxes that
\* precede it), each byte once and in order; and no callback has been given
\* a byte of a box that was not delivered whole.
C13_ChunksReconstruct ==
  ~FetchBroken =>
    /\ Concatenated(Calls("chunkFn")) = [k \in 1..LastCompleteEnd({"mdat"}) |-> k]
    /\ \A i \in DOMAIN fetch.trace :
         fetch.trace[i].op \in {"chunkFn", "dataFn"} =>
           \A k \in DOMAIN fetch.trace[i].x :
             fetch.trace[i].x[k] \in 1..LastCompleteEnd(BoxTypes)

\* C14: the fetch has called the track-info callback and the timing-info
\* callback once when it has emitted a chunk, however many, and not at all
\* before; the first callback of a fetch is the track-info callback.
C14_DiscoveryOnce ==
  /\ Len(Calls("trackInfoFn")) = (IF Calls("chunkFn") = <<>> THEN 0 ELSE 1)
  /\ Len(Calls("timingInfoFn")) = (IF Calls("chunkFn") = <<>> THEN 0 ELSE 1)

\* C15: when the fetch has called the chunk callback, a media-data box has
\* been delivered whole and, if an init segment was needed, its response has
\* been received.
C15_ChunksAfterInit ==
  Calls("chunkFn") # <<>> =>
    /\ LastCompleteEnd({"mdat"}) > 0
    /\ fetch.needInit => fetch.initRcvd /\ ~fetch.initReq

\* the init segment arrived first, and two chunks of the stream were emitted
C15_Witness ==
  /\ fetch.needInit
  /\ fetch.initRcvd
  /\ Len(Calls("chunkFn")) > 1
  /\ Concatenated(Calls("chunkFn")) = [k \in 1..LastCompleteEnd({"mdat"}) |-> k]

\* C16: whenever a step hands bytes to the sink (appendBuffer), the sink is
\* ready and the track info of the pending request is recorded at that
\* moment.
C16_AppendGated ==
  \A e \in Events("appendBuffer") : e.y.ready /\ e.y.trackInfo


\* C17: for each track type, an append carries the init bytes exactly when it
\* is the first append of the type since the playlist (and with it the init
\* segment) or the track set changed: an append of the type whose playlist is
\* the one the init bytes were last sent for, with no change of the track set
\* since, carries none, be it a later chunk of the segment or a following
\* segment.
C17_InitOncePerChange ==
  \A e \in Events("appendBuffer") : e.x.init <=> (e.x.sent # e.x.playlist)

\* the error events of the step: what was recorded by error() before each
Errors == Events("trigger") \cap { e \in Events("trigger") : e.x = "error" }

\* C18: after a step in which a fatal condition raised the error event (an
\* error of the request, an illegal media switch, no usable media), no request
\* is pending and the loader is READY.
C18_FatalLeavesReady ==
  Errors # {} => pendingSegment_ = NoSegment /\ state = "READY"

\* C19: when the pending request finishes with the error "aborted", the
\* loader is READY with no pending request, and the step raised no error
\* event, recorded no error and did not pause; when it finishes with the
\* error "timeout", the loader is READY, and the step set the bandwidth to 1,
\* counted one timed-out request, fired bandwidthupdate and raised no error
\* event.
C19_AbortedAndTimedOut ==
  \A e \in Events("requestError") :
    /\ e.x = "aborted" =>
         /\ state = "READY"
         /\ pendingSegment_ = NoSegment
         /\ Errors = {}
         /\ Events("error_") = {}
         /\ Events("pause") = {}
    /\ e.x = "timeout" =>
         /\ state = "READY"
         /\ { b.x : b \in Events("bandwidth") } = {1}
         /\ { c.x : c \in Events("mediaRequestsTimedout") } = {1}
         /\ \E g \in Events("trigger") : g.x = "bandwidthupdate"
         /\ Errors = {}

\* the pending request of a loader whose timer is armed finished with the
\* error "aborted", and the timer is still armed
C19_Witness ==
  /\ \E e \in Events("requestError") : e.x = "aborted"
  /\ checkBufferTimeout_

\* the track set trackInfo is incompatible with the established one: it has
\* neither audio nor video, it lost the video that was expected, or it has
\* video where only audio was expected
Incompatible(established, trackInfo) ==
  \/ ~trackInfo.hasAudio /\ ~trackInfo.hasVideo
  \/ established.hasVideo /\ ~trackInfo.hasVideo
  \/ ~established.hasVideo /\ trackInfo.hasVideo

\* C20: when a main loader with an established track set receives, for its
\* pending request, track info whose track set is incompatible with it, the
\* step raises the error event for an error with an infinite blacklist
\* duration, records no track info, and appends no byte of that request, in
\* that step or later; track info with neither audio nor video, which no
\* segment of the model carries, would be refused in the same way in every
\* state; a loader of another type never raises that error.
C20_IllegalSwitchFatal ==
  /\ \A e \in Events("trackInfo") :
       (loaderType = "main" /\ IsSome(e.y) /\ Incompatible(Val(e.y), e.x)) =>
         /\ \E r \in Events("error_") :
              r.x.message = "illegal media switch" /\ r.x.blacklistDuration = Infinity
         /\ Errors # {}
         /\ currentMediaInfo_ = e.y
         /\ pendingSegment_ = NoSegment
         /\ e.id \in refused
  /\ (loaderType = "main" /\ HasPending(Self) /\ IsSome(currentMediaInfo_)) =>
       LET n == handleTrackInfo_(Self, pendingSegment_.requestId, TrackInfo(FALSE, FALSE, FALSE))
       IN /\ \E i \in DOMAIN n.log :
               /\ n.log[i].op = "error_"
               /\ n.log[i].x.message = "illegal media switch"
               /\ n.log[i].x.blacklistDuration = Infinity
          /\ \E i \in DOMAIN n.log : n.log[i].op = "trigger" /\ n.log[i].x = "error"
          /\ n.currentMediaInfo_ = currentMediaInfo_
          /\ n.pendingSegment_ = NoSegment
          /\ pendingSegment_.requestId \in n.refused
  /\ \A a \in Events("appendBuffer") : a.x.from \notin refused
  /\ loaderType # "main" =>
       \A r \in Events("error_") : r.x.message # "illegal media switch"

\* a main loader that holds a track set with video was handed track info
\* without video for its pending request
C20_Witness ==
  /\ loaderType = "main"
  /\ \E e \in Events("trackInfo") :
       /\ IsSome(e.y)
       /\ Val(e.y).hasVideo
       /\ ~e.x.hasVideo
       /\ e.id \in refused


\* ------------------------------------------------------------- C21
\* the positions of the step's effects of one kind
Positions(op) == { i \in DOMAIN log : log[i].op = op }
AppendsDone == { i \in Positions("trigger") : log[i].x = "appendsdone" }

\* C21: throughput.count is incremented once for every request whose appends
\* complete and by nothing else, and the sample folded into throughput.rate is
\* floor(S / D * 8000) for the S bytes received for the segment and the
\* processing time D > 0, on the buffered and on the chunked transport.
C21_Throughput ==
  /\ Cardinality(Positions("recordThroughput")) = Cardinality(AppendsDone)
  /\ \A i \in Positions("recordThroughput") :
       /\ log[i].x.segmentProcessingTime > 0
       /\ log[i].y = (log[i].x.bytesReceived * 8000) \div log[i].x.segmentProcessingTime

\* the part of C21 about the count alone
C21_CountOncePerCompletion ==
  /\ Cardinality(Positions("recordThroughput")) = Cardinality(AppendsDone)
  /\ Cardinality(AppendsDone) <= 1

\* the sample of a segment of the buffered transport
C21_BufferedSample ==
  \A i \in Positions("recordThroughput") :
    ~useFetch => log[i].y = (log[i].x.bytesReceived * 8000) \div log[i].x.segmentProcessingTime


\* ------------------------------------------------------------- C22
\* the loader a call leaves, without the effects of the call
Left(s) == [s EXCEPT !.log = <<>>]
\* the loader with a buffer-check timer armed and nothing else changed;
\* monitorBuffer_ clears the timer it holds before it arms one, so the timer
\* held is the only one armed
Unpaused(s) == [s EXCEPT !.checkBufferTimeout_ = TRUE]

\* C22: in every state, load() called twice in a row leaves the loader as one
\* call does (state, pending request, media index, sync point and everything
\* else), with the buffer-check timer armed; with no playlist it only
\* un-pauses; and in WAITING or APPENDING it only un-pauses, with no effect on
\* the request.
C22_LoadIdempotent ==
  /\ Left(load(load(Self))) = Left(load(Self))
  /\ ~paused(load(Self))
  /\ playlist_ = NoPlaylist => Left(load(Self)) = Unpaused(Self)
  /\ state \in {"WAITING", "APPENDING"} => load(Self) = Unpaused(Self)

\* a paused loader with a request in flight, which load() un-pauses
C22_Witness ==
  /\ state = "WAITING"
  /\ HasPending(Self)
  /\ paused(Self)
  /\ ~paused(load(Self))
  /\ load(Self).pendingSegment_ = pendingSegment_


\* ------------------------------------------------------------- C23
\* the step called playlist() with a playlist of another uri on a loader
\* that had left INIT
Switched(e) ==
  /\ e.x.old # NoPlaylist
  /\ e.x.old.uri # e.x.new.uri
  /\ state \notin {"INIT", "DISPOSED"}
  /\ \A c \in StateChanges : c.x # "INIT"

\* C23: after playlist(newPlaylist) with another uri on a loader past INIT the
\* media index is null, the sync point is cleared, no request is pending and
\* playlistupdate was fired, whether or not a media index had been
\* established before the call.
C23_SwitchResyncs ==
  \A e \in Events("playlist") :
    Switched(e) =>
      /\ mediaIndex = None
      /\ ~syncPoint_
      /\ ~HasPending(Self)
      /\ \E g \in Events("trigger") : g.x = "playlistupdate"

\* the same for a loader that had established a media index
C23_SwitchResyncsSynced ==
  \A e \in Events("playlist") :
    (Switched(e) /\ IsSome(e.y.mediaIndex)) =>
      /\ mediaIndex = None
      /\ ~syncPoint_
      /\ ~HasPending(Self)
      /\ \E g \in Events("trigger") : g.x = "playlistupdate"

\* every switch fires playlistupdate and forgets the track info
C23_SwitchAnnounced ==
  \A e \in Events("playlist") :
    Switched(e) =>
      /\ currentMediaInfo_ = None
      /\ \E g \in Events("trigger") : g.x = "playlistupdate"


\* ------------------------------------------------------------- C24
\* C24: for each loader type, the 'to' timeline of the last committed timeline
\* change never decreases.
C24_LastChangeMonotone ==
  [][\A type \in LoaderTypes :
       (IsSome(timelineChangeController_.last[type]) /\ IsSome(timelineChangeController_.last[type]')) =>
         Val(timelineChangeController_.last[type]').to >= Val(timelineChangeController_.last[type]).to]_vars


\* ------------------------------------------------------------- C25
\* what abort_() leaves: no pending request, empty call and load queues and
\* no pending timeline change of the loader's type
Cleared(s) ==
  /\ ~HasPending(s)
  /\ s.callQueue_ = <<>>
  /\ s.loadQueue_ = <<>>
  /\ s.timelineChangeController_.pending[s.loaderType] = None

\* C25: abort() called in a state other than WAITING discards the pending
\* request, empties the queues and clears the loader's pending timeline
\* change, as it does in WAITING.
C25_AbortClearsEverywhere ==
  state # "WAITING" => Cleared(abort(Self))

\* in WAITING abort() does all of that
C25_AbortClearsWaiting ==
  state = "WAITING" => Cleared(abort(Self))

\* in every state abort() discards the pending request
C25_AbortDiscards == ~HasPending(abort(Self))


\* ------------------------------------------------------------- C26
\* A loader on the buffered transport whose callbacks all arrive: every
\* callback of the network and of the sink that is outstanding is delivered,
\* and an armed buffer-check timer fires.
InitAppending ==
  /\ Init
  /\ ~useFetch

Callbacks ==
  \/ TrackInfoArrives
  \/ TimingInfoArrives
  \/ DataArrives
  \/ RequestDone
  \/ QueueCallback
  \/ SinkReady

NextAppending ==
  \/ Load
  \/ SetPlaylist
  \/ Abort
  \/ SetAudio
  \/ Tick
  \/ Callbacks

\* a step that delivers a completion callback of the sink
SinkDelivered ==
  \E id \in RequestIds :
    /\ queueCallbacks[id] > 0
    /\ queueCallbacks' = [queueCallbacks EXCEPT ![id] = @ - 1]

\* a step that delivers a callback of the buffered transport
NetDelivered ==
  \E id \in RequestIds :
    /\ InFlight(net[id])
    /\ \E phase \in {"tracked", "timed", "data", "closed"},
          trackInfo \in TrackInfos \cup {NetIdle.trackInfo} :
         net' = [net EXCEPT ![id] = [phase |-> phase, chunks |-> 0, trackInfo |-> trackInfo]]

SpecAppending ==
  /\ InitAppending
  /\ [][NextAppending]_vars
  /\ WF_queueCallbacks(SinkDelivered)
  /\ WF_net(NetDelivered)

\* the step called abort() while the state was APPENDING
AbortedAppending ==
  /\ state = "APPENDING"
  /\ \E e \in Events("abort") : e.x = "APPENDING"

\* C26: after abort() in APPENDING the loader eventually returns to READY,
\* whatever way the request reached APPENDING, when every outstanding
\* callback is delivered.
C26_AbortedAppendingRecovers == AbortedAppending ~> (state = "READY")


\* a request that is APPENDING has a callback outstanding, of the network or
\* of the sink, whose arrival can reset the state after an abort()
C26_CallbackOutstanding ==
  (state = "APPENDING" /\ HasPending(Self)) =>
    \E id \in RequestIds : queueCallbacks[id] > 0 \/ InFlight(net[id])


\* ------------------------------------------------------------- C27
\* record n, the end of a chunk callback, left the loader, the sink and the
\* init-segment state as they were
DiscardedChunk(n) ==
  /\ Discarded(n)
  /\ n.appendInitSegment_ = appendInitSegment_
  /\ n.playlistOfLastInitSegment_ = playlistOfLastInitSegment_
  /\ n.activeInitSegmentId_ = activeInitSegmentId_
  /\ n.initSent = initSent

\* C27: a media-chunk callback of the chunked transport for a request that
\* is not the pending one (no request is pending, or another one is) is
\* discarded: no byte of it reaches the sink and the pending request and the
\* init-segment state stay as they are.
C27_StaleChunkDiscarded ==
  /\ \A e \in Events("appendBuffer") : e.x.from = e.id
  /\ \A requestId \in RequestIds :
       (useFetch /\ net[requestId].phase = "open" /\ Stale(requestId)) =>
         \A type \in MediaTypes : DiscardedChunk(handleMediaChunk_(Self, requestId, type))

\* the part of C27 about the sink: every append is of bytes of the pending
\* request
C27_StaleChunkNotAppended ==
  \A e \in Events("appendBuffer") : e.x.from = e.id


\* ------------------------------------------------------------- C28
\* the requests for request id that a step with log l issued
RequestsIssued(l, id) == { i \in DOMAIN l : l[i].op = "request" /\ l[i].id = id }

\* the audio loader holds a queued load, and the step records a last timeline
\* change of main into the timeline of the segment of that load
MainCrosses ==
  /\ loaderType = "audio"
  /\ loadQueue_ # <<>>
  /\ timelineChangeController_.last["main"]' # timelineChangeController_.last["main"]
  /\ IsSome(timelineChangeController_.last["main"]')
  /\ Val(timelineChangeController_.last["main"]').to = pendingSegment_.timeline

\* C28: when main records a last timeline change into the timeline the audio
\* loader's queued load waits for, that step runs the queued load once: the
\* queue is empty and one request of the pending segment is issued and in
\* flight.  A load is queued only by an audio loader that is WAITING for a
\* change of main that is not yet recorded, and a main loader queues neither
\* loads nor calls, so the two loaders never wait for each other.
C28_QueuedLoadRuns ==
  /\ [][MainCrosses =>
          /\ loadQueue_' = <<>>
          /\ Cardinality(RequestsIssued(log', pendingSegment_.requestId)) = 1
          /\ InFlight(net'[pendingSegment_.requestId])
          /\ pendingSegment_'.requestId = pendingSegment_.requestId]_vars
  /\ [](loadQueue_ # <<>> =>
          /\ loaderType = "audio"
          /\ state = "WAITING"
          /\ loadQueue_ = << pendingSegment_.requestId >>
          /\ ~InFlight(net[pendingSegment_.requestId])
          /\ shouldWaitForTimelineChange(timelineChangeController_, currentTimeline_,
                                         pendingSegment_.timeline, "audio", audioDisabled_))
  /\ [](loaderType = "main" => loadQueue_ = <<>> /\ callQueue_ = <<>>)

\* a step in which the audio loader's request was issued from the load queue
\* (not by loadSegment_), for a timeline other than its current one that the
\* last timeline change of main leads to
C28_Witness ==
  /\ loaderType = "audio"
  /\ Events("loadSegment") = {}
  /\ \E e \in Events("request") :
       /\ e.id = pendingSegment_.requestId
       /\ e.tl # e.y.currentTimeline
       /\ IsSome(e.y.lastMain)
       /\ Val(e.y.lastMain).to = e.tl
       /\ InFlight(net[e.id])


\* ------------------------------------------------------------- C29
\* The inputs of shouldWaitForTimelineChange: a coordinator with or without a
\* pending and a last change for each loader type, the loader's timeline
\* (-1 before the first segment) and the timeline of the segment.
ChangeRecords == {None} \cup { Some(Change(to - 1, to)) : to \in Timelines }
Coordinators ==
  [ pending : [LoaderTypes -> ChangeRecords], last : [LoaderTypes -> ChangeRecords] ]

\* shouldWaitForTimelineChange is called once, and what it returns is recorded
ShouldWait ==
  /\ log = <<>>
  /\ \E tcc \in Coordinators, currentTimeline \in {-1} \cup Timelines,
        segmentTimeline \in Timelines, type \in LoaderTypes, audioDisabled \in BOOLEAN :
       Step(Logged(Self,
         Ev("shouldWaitForTimelineChange", 0, 0,
            [timelineChangeController |-> tcc, currentTimeline |-> currentTimeline,
             segmentTimeline |-> segmentTimeline, loaderType |-> type,
             audioDisabled |-> audioDisabled],
            shouldWaitForTimelineChange(tcc, currentTimeline, segmentTimeline, type, audioDisabled))))

NextWait == ShouldWait

SpecWait == Init /\ [][NextWait]_vars

\* C29: shouldWaitForTimelineChange returns false when the segment timeline
\* is the current one; otherwise, for 'audio', true exactly when main has no
\* last change or its 'to' is not the segment timeline; for 'main' with audio
\* disabled, true exactly when audio has no pending change or its 'to' is not
\* the segment timeline; for 'main' with audio enabled, false.
C29_ShouldWait ==
  \A e \in Events("shouldWaitForTimelineChange") :
    LET in == e.x
        lastMain == in.timelineChangeController.last["main"]
        pendingAudio == in.timelineChangeController.pending["audio"]
    IN /\ in.currentTimeline = in.segmentTimeline => e.y = FALSE
       /\ (in.currentTimeline # in.segmentTimeline /\ in.loaderType = "audio") =>
            (e.y <=> (lastMain = None \/ Val(lastMain).to # in.segmentTimeline))
       /\ (in.currentTimeline # in.segmentTimeline /\ in.loaderType = "main" /\ in.audioDisabled) =>
            (e.y <=> (pendingAudio = None \/ Val(pendingAudio).to # in.segmentTimeline))
       /\ (in.currentTimeline # in.segmentTimeline /\ in.loaderType = "main" /\ ~in.audioDisabled) =>
            e.y = FALSE

\* a main loader with audio disabled is let through by a pending change of
\* audio into the segment's timeline, whatever the last changes are
C29_Witness ==
  \E e \in Events("shouldWaitForTimelineChange") :
    /\ e.x.loaderType = "main"
    /\ e.x.audioDisabled
    /\ e.x.currentTimeline # e.x.segmentTimeline
    /\ e.x.timelineChangeController.last["main"] = None
    /\ IsSome(e.x.timelineChangeController.pending["audio"])
    /\ e.y = FALSE


\* ------------------------------------------------------------- C30
\* the positions in the trace of the fetch of the calls of fn
CallsAt(fn) == { i \in DOMAIN fetch.trace : fetch.trace[i].op = fn }

\* the reader of the fetch has delivered the whole stream and reported its end
StreamEnded ==
  /\ fetch.id # 0
  /\ fetch.segmentDone
  /\ fetch.pos = StreamLength(fetch.stream)

\* C30: the done callback is not invoked before the media stream ends; once
\* the stream has ended it has been invoked exactly once, after every chunk
\* callback, whether or not the stream held a complete media-data box and
\* whether or not the init response had arrived, and the loader has left
\* WAITING.
C30_DoneOnce ==
  /\ ~StreamEnded => CallsAt("doneFn") = {}
  /\ StreamEnded =>
       /\ Cardinality(CallsAt("doneFn")) = 1
       /\ \A d \in CallsAt("doneFn"), c \in CallsAt("chunkFn") : c < d
       /\ state # "WAITING"

\* the same for the streams that held a complete media-data box, when no init
\* segment was needed
C30_DoneOnceAfterChunk ==
  (StreamEnded /\ CallsAt("chunkFn") # {} /\ ~fetch.needInit) =>
    /\ Cardinality(CallsAt("doneFn")) = 1
    /\ \A d \in CallsAt("doneFn"), c \in CallsAt("chunkFn") : c < d

\* done is never invoked twice, nor before a chunk callback
C30_DoneAtMostOnce ==
  /\ Cardinality(CallsAt("doneFn")) <= 1
  /\ \A d \in CallsAt("doneFn"), c \in CallsAt("chunkFn") : c < d


\* ------------------------------------------------------------- C31
\* the init request of the fetch was answered with a status outside 2xx
InitRequestFailed ==
  /\ fetch.id # 0
  /\ fetch.needInit
  /\ ~fetch.initReq
  /\ ~fetch.initRcvd

\* C31: once the init request of a chunked fetch has failed, the done callback
\* has been invoked, the step that reported it raised the error event, and the
\* loader is READY with no pending request.
C31_InitFailureReported ==
  InitRequestFailed =>
    /\ CallsAt("doneFn") # {}
    /\ pendingSegment_ = NoSegment
    /\ state = "READY"

\* a failed init request is never reported: no done callback follows it and
\* the request stays pending
C31_InitFailureSilent ==
  InitRequestFailed =>
    /\ CallsAt("doneFn") = {}
    /\ HasPending(Self)
    /\ state = "WAITING"
    /\ Errors = {}


\* ------------------------------------------------------------- C32
\* the fetches in progress that have emitted their discovery callbacks
Discovered == { id \in RequestIds : net[id].phase = "open" /\ net[id].chunks > 0 }

\* the callbacks fn of the step that ends the stream of fetch id now
EndCalls(id, fn) ==
  LET n == streamEnd(Left(Self), id, net[id].trackInfo, <<>>, DoneBase)
  IN { i \in DOMAIN n.log : n.log[i].op = fn /\ n.log[i].id = id }

\* C32: whether a chunked fetch emits its data and done callbacks when its
\* stream ends depends on that fetch alone: in every reachable state a fetch in
\* progress emits them at the end of its stream exactly when it has itself
\* emitted its discovery callbacks, whatever other fetch was started or has
\* progressed meanwhile.
C32_FlagPerFetch ==
  useFetch =>
    \A id \in RequestIds :
      net[id].phase = "open" =>
        /\ (EndCalls(id, "dataFn") # {}) = (id \in Discovered)
        /\ (EndCalls(id, "doneFn") # {}) => (id \in Discovered)

\* a fetch that has emitted no discovery callback emits nothing at the end of
\* its stream, whatever the other fetch did
C32_NoDiscoveryNoEnd ==
  useFetch =>
    \A id \in RequestIds :
      (net[id].phase = "open" /\ id \notin Discovered) =>
        EndCalls(id, "dataFn") \cup EndCalls(id, "doneFn") = {}


\* ------------------------------------------------------------- C33
\* the response of the init request of the fetch has arrived, with an init
\* segment in it
InitArrived ==
  /\ fetch.needInit
  /\ fetch.initRcvd
  /\ fetch.tracks

\* C33: once the init response of a chunked fetch has arrived, before or after
\* the reads of the media stream, the chunks handed to the chunk callback, one
\* after the other, are the bytes of the stream up to the end of the last
\* media-data box delivered whole: a chunk cut out before the init response
\* arrived has been delivered, and no chunk holds the bytes of the init
\* segment.
C33_ChunksInEitherOrder ==
  (InitArrived /\ ~FetchBroken) =>
    /\ Concatenated(Calls("chunkFn")) = [k \in 1..LastCompleteEnd({"mdat"}) |-> k]
    /\ \A i \in CallsAt("chunkFn") : fetch.trace[i].x # InitBytes

\* the bytes of the init segment are never handed to the chunk callback
C33_InitNotAChunk ==
  \A i \in CallsAt("chunkFn") : fetch.trace[i].x # InitBytes

\* every byte handed to the chunk callback is a byte of the media stream
\* delivered so far or a byte of the init segment, and the bytes of the stream
\* are handed over in order, none twice
C33_ChunksInOrder ==
  LET media == SelectSeq(Concatenated(Calls("chunkFn")), LAMBDA b : b \in 1..fetch.pos)
  IN \A i, j \in DOMAIN media : i < j => media[i] < media[j]


\* ------------------------------------------------------------- C34
\* the request that entered APPENDING is still the pending one
Appending == state = "APPENDING" /\ HasPending(Self)

\* C34: a request that is APPENDING and is not aborted completes: when the
\* sink reports every queued append done, the loader returns to READY, for
\* every loader type, audio-disabled flag and track set.
C34_AppendingCompletes == Appending ~> (state = "READY" \/ Events("abort") # {})

\* handleAppendsDone_ runs at most once in a step, and only for a request
\* that was APPENDING: the step leaves the loader READY or refilling
C34_DoneAtMostOnce ==
  /\ Cardinality(AppendsDone) <= 1
  /\ AppendsDone # {} => \E e \in StateChanges : e.x = "APPENDING" /\ e.y = "READY"


\* ------------------------------------------------------------- C35
\* the appends of a sync request are about to complete
ProbeAppending ==
  /\ state = "APPENDING"
  /\ HasPending(Self)
  /\ pendingSegment_.isSyncRequest

\* what the completion of the request did, in order
Effects(n) == [ i \in DOMAIN n.log |-> IF n.log[i].op = "trigger" THEN n.log[i].x ELSE n.log[i].op ]

\* C35: the completion of a sync request leaves the media index, the current
\* timeline, the fetch-at-buffer flag, the coordinator and everything else of
\* the loader as they were; after the appendsdone event of every completion
\* it only saves the timing info, records the throughput, clears the pending
\* request, makes the state READY and fires syncinfoupdate.
C35_ProbeCompletion ==
  ProbeAppending =>
    \A in \in DoneInputs :
      LET n == handleAppendsDone_(Self, in)
      IN /\ Left(n) = [Self EXCEPT !.pendingSegment_ = NoSegment, !.state = "READY"]
         /\ Effects(n) = <<"appendsdone", "saveSegmentTimingInfo", "recordThroughput",
                           "statechange", "syncinfoupdate">>

\* the appends of a sync request for a timeline that is not the loader's are
\* about to complete, in a loader that has not fetched at the buffer yet
C35_Witness ==
  /\ ProbeAppending
  /\ pendingSegment_.timeline # currentTimeline_
  /\ ~fetchAtBuffer_
  /\ mediaIndex = None
  /\ \E id \in RequestIds : queueCallbacks[id] > 0


\* ------------------------------------------------------------- C36
\* The drains alone: a loader with a request pending whose call queue holds
\* calls of segmentRequestFinished_, any calls in any order, or whose load
\* queue holds the load of the pending request.
MaxQueued == 2
QueuedCalls == [ err : {"none", "failed"}, requestId : RequestIds, in : {DoneBase} ]
CallQueues ==
  UNION { [1..n -> QueuedCalls] : n \in 1..MaxQueued }

\* calls are waiting in the queue of a loader that has issued its first request
QueueCalls ==
  /\ state = "INIT"
  /\ \E callQueue \in CallQueues :
       Step([Started(Self) EXCEPT !.callQueue_ = callQueue, !.log = <<>>])

\* the loader after load(), playlist() and the tick that loads its next
\* segment, with the track info of an earlier request: an audio loader queues
\* the load of a timeline that main has not reached
Waiting(s, trackInfo) ==
  monitorBufferTick_([load(playlist(s, Playlist(1, 0, NumSegments)))
                        EXCEPT !.currentMediaInfo_ = Some(trackInfo)], TickBase)

QueueLoad ==
  /\ state = "INIT"
  /\ \E trackInfo \in TrackInfosOf(loaderType) :
       Step([Waiting(Self, trackInfo) EXCEPT !.log = <<>>])

\* a request finishes while calls are waiting: it goes behind them
RequestFinished ==
  /\ callQueue_ # <<>>
  /\ Len(callQueue_) <= MaxQueued
  /\ \E call \in QueuedCalls :
       Step(segmentRequestFinished_(Self, call.err, call.requestId, call.in))

DrainCalls ==
  /\ callQueue_ # <<>>
  /\ Step(processCallQueue_(Self))

DrainLoads ==
  /\ loadQueue_ # <<>>
  /\ \E buffered \in {None, Some(16)} : Step(processLoadQueue_(Self, buffered))

NextDrain ==
  \/ QueueCalls
  \/ QueueLoad
  \/ RequestFinished
  \/ DrainCalls
  \/ DrainLoads

SpecDrain == Init /\ [][NextDrain]_vars

\* the calls that record n ran, in order
Funs(n) ==
  LET ran == SelectSeq(n.log, LAMBDA e : e.op = "fun")
  IN [ i \in DOMAIN ran |-> [err |-> ran[i].x, requestId |-> ran[i].id] ]

\* the loads that record n started, in order
Loads(n) ==
  LET ran == SelectSeq(n.log, LAMBDA e : e.op = "request")
  IN [ i \in DOMAIN ran |-> ran[i].id ]

\* the calls of a queue, without what they read of the sink
Bound(callQueue) ==
  [ i \in DOMAIN callQueue |-> [err |-> callQueue[i].err, requestId |-> callQueue[i].requestId] ]

RequestStarted(l) ==
  \E i \in DOMAIN l : l[i].op = "statechange" /\ l[i].x = "READY" /\ l[i].y = "WAITING"

\* C37: a step taken by a paused loader leaves it paused unless the step is a
\* call of load(), and starts no request (no READY->WAITING transition),
\* whatever the step is: a callback, an abort, a resync, a playlist refresh.
C37_PausedUntilLoad ==
  [][ ~checkBufferTimeout_ =>
        /\ checkBufferTimeout_' => Commit(load(Self))
        /\ ~RequestStarted(log') ]_vars

\* the appends of a request that was outstanding when the loader was paused
\* have completed, and the loader is READY and still paused
C37_Witness ==
  /\ ~checkBufferTimeout_
  /\ state = "READY"
  /\ AppendsDone # {}
  /\ pendingSegment_ = NoSegment
  /\ mediaIndex # None


\* ------------------------------------------------------------- C38
\* C38: checkBuffer_ returns no request for the last segment of the playlist
\* when the media source has ended and the player is not seeking.
C38_NoFinalAfterEnd ==
  \A e \in Events("checkBuffer_returns") :
    (e.x.in.ended /\ ~e.x.in.seeking /\ e.y # NoSegment) =>
      e.y.mediaIndex # e.x.playlist.length - 1

\* checkBuffer_ returned nothing after the end of the stream where it returns
\* the last segment of the playlist to a player that seeks, and to one whose
\* media source is open
C38_Witness ==
  \E e \in Events("checkBuffer_returns") :
    /\ e.x.in.ended
    /\ ~e.x.in.seeking
    /\ e.y = NoSegment
    /\ \A in \in {[e.x.in EXCEPT !.seeking = TRUE], [e.x.in EXCEPT !.ended = FALSE]} :
         LET segmentInfo == checkBuffer_(Self, e.x.playlist, e.x.mediaIndex, in)
         IN /\ segmentInfo # NoSegment
            /\ segmentInfo.mediaIndex = e.x.playlist.length - 1


\* ------------------------------------------------------------- C39
\* the closure of a call of remove after the sink has reported n more of its
\* removals complete
RECURSIVE Reported(_, _)
Reported(removes, n) ==
  IF n = 0 THEN removes ELSE Reported(removeFinished(removes), n - 1)

\* done has not been called before the last removal of the call is reported
\* complete, and has been called once when it is
DoneAfterRemovals(removes) ==
  \A n \in 0..Cardinality(removes.issued) :
    Reported(removes, n).done = (IF n = Cardinality(removes.issued) THEN 1 ELSE 0)

\* C39: in every state of the loader, remove(start, end, done) and
\* resetEverything(done) call done exactly once, when every removal the call
\* issued to the sink has been reported complete, and also when no media has
\* been processed yet and there is nothing to remove.
C39_DoneOnce ==
  /\ DoneAfterRemovals(remove(Self))
  /\ DoneAfterRemovals(remove(resetEverything(Self)))

\* the same for the loaders that have processed media
C39_DoneOnceWithMedia ==
  IsSome(currentMediaInfo_) =>
    /\ DoneAfterRemovals(remove(Self))
    /\ DoneAfterRemovals(remove(resetEverything(Self)))

\* before any media was processed neither call ever calls done
C39_NoMediaNoDone ==
  ~IsSome(currentMediaInfo_) =>
    /\ remove(Self) = remove_Silent(Self)
    /\ remove(resetEverything(Self)) = remove_Silent(Self)


\* ------------------------------------------------------------- C40
\* C40: in every reachable state a request is pending if and only if the
\* state is WAITING or APPENDING.
C40_PendingIffBusy ==
  HasPending(Self) <=> state \in {"WAITING", "APPENDING"}

\* a loader that is WAITING has a pending request
C40_WaitingHasPending ==
  state = "WAITING" => HasPending(Self)

\* a loader that is INIT or DISPOSED has no pending request
C40_IdleHasNone ==
  state \in {"INIT", "DISPOSED"} => ~HasPending(Self)

\* a loader that is READY has no pending request
C40_ReadyHasNone ==
  state = "READY" => ~HasPending(Self)

=========================================================================
